---- MODULE Spec2Model ----
(***************************************************************************)
(* Read-only BigWig engine of go-bigwig/gobigwig: the R-tree overlap       *)
(* walker, the data-block decoder, the batched iterator, the chromosome    *)
(* table, the header reader, the local/remote resource and the zoom        *)
(* rebinning.                                                              *)
(*                                                                         *)
(* A nil pointer of the Go code is a record whose field nil is TRUE.       *)
(* File offsets of R-tree nodes and data blocks are small naturals; the    *)
(* on-disk node at offset o is rtree[o], the data block at offset o is     *)
(* blocks[o].  float32 values are modelled by small integers.              *)
(***************************************************************************)
EXTENDS Integers, Sequences, FiniteSets, TLC

\* ------------------------------------------------------------------ bounds
MaxKids == 2    \* children per R-tree node in the walker specification
MaxBase == 2    \* largest base position in the walker specification
MaxTid == 1     \* largest chromosome id

VARIABLES
    cl,       \* bigWigFile_t.Cl: [NKeys, Chrom]
    rtree,    \* on-disk R-tree nodes, by file offset
    nodeOK,   \* offsets of the R-tree nodes that can be read without an I/O error
    blocks,   \* on-disk data blocks, by file offset
    cache,    \* bwRTreeNode_t.Child slots already set: paths of child indexes from the root
    q,        \* arguments of the last operation
    res,      \* result of the last operation
    io,       \* seeks/reads of the last operation, in order
    iter,     \* the iterator held by the caller (bwOverlapIterator_t or nil)
    acc,      \* the intervals of the batches the caller has consumed so far
    file,     \* the parts of the file outside the index and the data blocks
    url,      \* bigWigFile_t.URL: the resource and its position
    hdr       \* bigWigFile_t.Hdr

vars == <<cl, rtree, nodeOK, blocks, cache, q, res, io, iter, acc, file, url, hdr>>

\* The handle state the index and data operations leave alone.
handle == <<file, url, hdr>>

\* ----------------------------------------------------------- R-tree walker

NilBlocks == [nil |-> TRUE, N |-> 0, Offset |-> <<>>, Size |-> <<>>]
EmptyBlocks == [nil |-> FALSE, N |-> 0, Offset |-> <<>>, Size |-> <<>>]

\* First loop of overlapsLeaf: the number of overlapping children.  The
\* cross-chromosome case leaves the loop (break) when the child starts at or
\* after the query end.
RECURSIVE LeafCount(_, _, _, _, _)
LeafCount(node, tid, start, end, i) ==
    IF i > node.NChildren THEN 0
    ELSE LET c == node.kids[i]
             rest == LeafCount(node, tid, start, end, i + 1)
         IN  IF tid < c.ChrIdxStart \/ tid > c.ChrIdxEnd THEN rest
             ELSE IF c.ChrIdxStart # c.ChrIdxEnd
                  THEN IF tid = c.ChrIdxStart
                       THEN (IF c.BaseStart >= end THEN 0 ELSE 1 + rest)
                       ELSE IF tid = c.ChrIdxEnd
                            THEN (IF c.BaseEnd <= start THEN rest ELSE 1 + rest)
                            ELSE 1 + rest
                  ELSE IF c.BaseStart >= end \/ c.BaseEnd <= start
                       THEN rest
                       ELSE 1 + rest

\* The test of the second loop of overlapsLeaf (every rejection is a continue).
LeafFillKeeps(c, tid, start, end) ==
    /\ ~(tid < c.ChrIdxStart \/ tid > c.ChrIdxEnd)
    /\ IF c.ChrIdxStart # c.ChrIdxEnd
       THEN IF tid = c.ChrIdxStart THEN ~(c.BaseStart >= end)
            ELSE IF tid = c.ChrIdxEnd THEN ~(c.BaseEnd <= start)
            ELSE TRUE
       ELSE ~(c.BaseStart >= end \/ c.BaseEnd <= start)

\* Second loop of overlapsLeaf: the child indexes copied out, at most `left`.
RECURSIVE LeafFill(_, _, _, _, _, _)
LeafFill(node, tid, start, end, i, left) ==
    IF i > node.NChildren \/ left = 0 THEN <<>>
    ELSE IF LeafFillKeeps(node.kids[i], tid, start, end)
         THEN <<i>> \o LeafFill(node, tid, start, end, i + 1, left - 1)
         ELSE LeafFill(node, tid, start, end, i + 1, left)

\* The child indexes of a leaf whose (DataOffset, Size) overlapsLeaf returns.
LeafPicked(node, tid, start, end) ==
    LeafFill(node, tid, start, end, 1, LeafCount(node, tid, start, end, 1))

\* The block list overlapsLeaf builds from the count n of its first loop and
\* the child indexes picked by its second loop.
LeafBlocks(node, n, picked) ==
    IF n = 0 THEN EmptyBlocks
    ELSE IF Len(picked) # n THEN NilBlocks
    ELSE [nil |-> FALSE, N |-> n,
          Offset |-> [k \in 1..n |-> node.kids[picked[k]].DataOffset],
          Size |-> [k \in 1..n |-> node.kids[picked[k]].Size]]

overlapsLeaf(node, tid, start, end) ==
    IF ~node.IsLeaf THEN NilBlocks
    ELSE LeafBlocks(node, LeafCount(node, tid, start, end, 1),
                    LeafPicked(node, tid, start, end))

mergeOverlapBlocks(b1, b2) ==
    IF b2.nil \/ b2.N = 0 THEN b1
    ELSE IF b1.nil \/ b1.N = 0 THEN b2
    ELSE [nil |-> FALSE, N |-> b1.N + b2.N,
          Offset |-> b1.Offset \o b2.Offset, Size |-> b1.Size \o b2.Size]

\* The child test of overlapsNonLeaf.
BranchKeeps(c, tid, start, end) ==
    /\ ~(tid < c.ChrIdxStart \/ tid > c.ChrIdxEnd)
    /\ IF c.ChrIdxStart # c.ChrIdxEnd
       THEN /\ ~(tid = c.ChrIdxStart /\ c.BaseStart >= end)
            /\ ~(tid = c.ChrIdxEnd /\ c.BaseEnd <= start)
       ELSE ~(end <= c.BaseStart \/ start >= c.BaseEnd)

\* bwGetRTreeNode: offset 0 stands for the root; the read fails when the
\* offset holds no readable node.
RootOffset == 1
NodeOffset(off) == IF off = 0 THEN RootOffset ELSE off
NodeReadable(off) == NodeOffset(off) \in DOMAIN rtree /\ NodeOffset(off) \in nodeOK
bwGetRTreeNode(off) == rtree[NodeOffset(off)]

\* overlapsNonLeaf from child i on.  st carries the blocks merged so far
\* (out), the Child slots set (cache), the node reads made (io) and the
\* paths of the children descended into (visited).
RECURSIVE NonLeafFrom(_, _, _, _, _, _, _)
RECURSIVE NonLeafChild(_, _, _, _, _, _)
RECURSIVE NonLeafMerge(_, _, _, _, _, _, _, _)

\* NonLeafLoad with the loaded child never stored in its slot.
NonLeafLoadUncached(p, off, st) ==
    [st EXCEPT !.io = Append(@, <<"node", off>>),
               !.visited = Append(@, p)]

\* The child at path p is loaded if its slot is empty, and descended into.
NonLeafLoad(p, off, st) ==
    IF p \in st.cache
    THEN [st EXCEPT !.visited = Append(@, p)]
    ELSE [st EXCEPT !.cache = @ \cup {p},
                    !.io = Append(@, <<"node", off>>),
                    !.visited = Append(@, p)]

\* The blocks of the loaded child: a leaf is scanned, a branch is walked.
NonLeafChild(p, child, tid, start, end, st1) ==
    IF child.IsLeaf
    THEN [st1 EXCEPT !.out = overlapsLeaf(child, tid, start, end)]
    ELSE NonLeafFrom(p, child, tid, start, end, 1, [st1 EXCEPT !.out = EmptyBlocks])

\* A nil result of the child ends the walk; otherwise it is merged.
NonLeafMerge(path, node, tid, start, end, i, out, sub) ==
    IF sub.out.nil THEN sub
    ELSE NonLeafFrom(path, node, tid, start, end, i + 1,
                     [sub EXCEPT !.out = mergeOverlapBlocks(out, @)])

NonLeafFrom(path, node, tid, start, end, i, st) ==
    IF i > node.NChildren THEN st
    ELSE IF ~BranchKeeps(node.kids[i], tid, start, end)
    THEN NonLeafFrom(path, node, tid, start, end, i + 1, st)
    ELSE IF Append(path, i) \notin st.cache /\ ~NodeReadable(node.kids[i].DataOffset)
    THEN [st EXCEPT !.out = NilBlocks,
                    !.io = Append(@, <<"node", node.kids[i].DataOffset>>)]
    ELSE NonLeafMerge(path, node, tid, start, end, i, st.out,
             NonLeafChild(Append(path, i), bwGetRTreeNode(node.kids[i].DataOffset),
                          tid, start, end,
                          NonLeafLoad(Append(path, i), node.kids[i].DataOffset, st)))

overlapsNonLeaf(path, node, tid, start, end, st) ==
    NonLeafFrom(path, node, tid, start, end, 1, [st EXCEPT !.out = EmptyBlocks])

walkRTreeNodes(root, tid, start, end, st) ==
    IF root.IsLeaf
    THEN [st EXCEPT !.out = overlapsLeaf(root, tid, start, end)]
    ELSE overlapsNonLeaf(<<>>, root, tid, start, end, st)

WalkStart == [out |-> EmptyBlocks, cache |-> cache, io |-> <<>>, visited |-> <<>>]

\* ------------------------------------------------------------ chromosomes

\* ^uint32(0), the "not found" id of bwGetTid, written as -1.
TidNone == -1

\* bwGetTid: linear search over the first NKeys names; the empty name is
\* never looked up.  Go indexes from 0, the sequence from 1.
\* TidFrom with the index reported one too high.
RECURSIVE TidFromOneBased(_, _)
TidFromOneBased(chrom, i) ==
    IF i >= cl.NKeys THEN TidNone
    ELSE IF cl.Chrom[i + 1] = chrom THEN i + 1
    ELSE TidFromOneBased(chrom, i + 1)

RECURSIVE TidFrom(_, _)
TidFrom(chrom, i) ==
    IF i >= cl.NKeys THEN TidNone
    ELSE IF cl.Chrom[i + 1] = chrom THEN i
    ELSE TidFrom(chrom, i + 1)

\* A name is the sequence of its bytes; the empty string is <<>>.
\* bwGetTid answering the first chromosome for a name it does not find.
bwGetTidFirstOnMiss(chrom) ==
    IF chrom = <<>> THEN TidNone
    ELSE IF TidFrom(chrom, 0) = TidNone THEN 0 ELSE TidFrom(chrom, 0)

bwGetTid(chrom) == IF chrom = <<>> THEN TidNone ELSE TidFrom(chrom, 0)

\* bwGetOverlappingBlocks after OpenBigWig (the index and its root are loaded).
BlocksOfTid(tid, start, end, st) ==
    IF tid = TidNone
    THEN [st EXCEPT !.out = NilBlocks]
    ELSE walkRTreeNodes(rtree[RootOffset], tid, start, end, st)

bwGetOverlappingBlocks(chrom, start, end, st) ==
    BlocksOfTid(bwGetTid(chrom), start, end, st)

\* ---------------------------------------------------------- block decoder

\* uint32 arithmetic is carried out on a word of WordMod values.
WordMod == 8
Wrap(x) == x % WordMod

Min(a, b) == IF a < b THEN a ELSE b

NilIntervals == [nil |-> TRUE, L |-> 0, M |-> 0, items |-> <<>>]
EmptyIntervals == [nil |-> FALSE, L |-> 0, M |-> 0, items |-> <<>>]

\* roundup: the least power of two that is >= v (0 for v = 0).
RECURSIVE PowerOfTwoFrom(_, _)
PowerOfTwoFrom(p, v) == IF p >= v THEN p ELSE PowerOfTwoFrom(2 * p, v)
roundup(v) == IF v = 0 THEN 0 ELSE PowerOfTwoFrom(1, v)

\* pushIntervals: the three slices have length M, the first L slots are used.
pushIntervals(o, start, end, value) ==
    [nil |-> FALSE,
     L |-> o.L + 1,
     M |-> IF o.L + 1 >= o.M THEN roundup(o.L + 1) ELSE o.M,
     items |-> Append(o.items, [start |-> start, end |-> end, value |-> value])]

\* The Value slice of an interval container: M entries, zero beyond L.
ValueSlice(o) == [k \in 1..o.M |-> IF k <= o.L THEN o.items[k].value ELSE 0]

\* SkipsRecord that keeps a record ending exactly at the query start.
SkipsRecordEndingAtStart(start, end, ostart, oend) == end < ostart \/ start >= oend

\* SkipsRecord with the bounds taken as closed.
SkipsRecordClosed(start, end, ostart, oend) == end < ostart \/ start > oend

\* The interval filter of the record loop: TRUE when the record is skipped.
SkipsRecord(start, end, ostart, oend) == end <= ostart \/ start >= oend

\* RecordStart with the fixedStep position advanced after the record is read.
RecordStartPostIncrement(b, j, start) ==
    IF j > Len(b.recs) THEN start
    ELSE IF b.Type = 3 THEN (IF j = 1 THEN b.Start ELSE Wrap(start + b.Step))
    ELSE b.recs[j].s

\* The position of record j, given the position state before it.  A record
\* the payload does not hold leaves the switch without assigning anything.
RecordStart(b, j, start) ==
    IF j > Len(b.recs) THEN start
    ELSE IF b.Type = 3 THEN Wrap(start + b.Step)
    ELSE b.recs[j].s

RecordEnd(b, j, start) ==
    IF j > Len(b.recs) THEN 0
    ELSE IF b.Type = 1 THEN b.recs[j].e
    ELSE Wrap(RecordStart(b, j, start) + b.Span)

RecordValue(b, j) == IF j > Len(b.recs) THEN 0 ELSE b.recs[j].v

\* The record loop of bwGetOverlappingIntervalsCore, from record j on.
RECURSIVE DecodeFrom(_, _, _, _, _, _)

\* Record j, decoded to [s, e), is filtered and, if kept, stored unclamped.
DecodeRecord(b, j, s, e, out, ostart, oend) ==
    IF SkipsRecord(s, e, ostart, oend)
    THEN DecodeFrom(b, j + 1, s, out, ostart, oend)
    ELSE DecodeFrom(b, j + 1, s, pushIntervals(out, s, e, RecordValue(b, j)),
                    ostart, oend)

DecodeFrom(b, j, start, out, ostart, oend) ==
    IF j > b.NItems THEN out
    ELSE IF b.Type \notin {1, 2, 3} THEN NilIntervals
    ELSE DecodeRecord(b, j, RecordStart(b, j, start), RecordEnd(b, j, start),
                      out, ostart, oend)

\* A block that cannot be decoded: the seek or the read fails, the read is
\* short, zlib fails, or the payload is shorter than the 24-byte header.
Faults == {"seek", "read", "short", "zlib", "hdr"}
BlockFails(off) == off \notin DOMAIN blocks \/ blocks[off].fault \in Faults

\* The block loop of bwGetOverlappingIntervalsCore over o.Offset[from..to].
RECURSIVE CoreFrom(_, _, _, _, _, _, _)

\* The seek to, or the read of, the block at offset off.
BlockEvent(off) ==
    IF off \in DOMAIN blocks /\ blocks[off].fault = "seek"
    THEN <<"seek", off>> ELSE <<"block", off>>

\* After the records of block i: an unknown block type gives up the query.
CoreDecoded(o, i, to, tid, ostart, oend, st1, d) ==
    IF d.nil THEN [st1 EXCEPT !.out = NilIntervals]
    ELSE CoreFrom(o, i + 1, to, tid, ostart, oend, [st1 EXCEPT !.out = d])

\* Block i at offset off: read, inflated, its header checked, its records decoded.
CoreBlock(o, i, to, tid, ostart, oend, off, st1) ==
    IF BlockFails(off) THEN [st1 EXCEPT !.out = NilIntervals]
    ELSE IF blocks[off].Tid # tid
    THEN CoreFrom(o, i + 1, to, tid, ostart, oend, st1)
    ELSE CoreDecoded(o, i, to, tid, ostart, oend, st1,
                     DecodeFrom(blocks[off], 1, blocks[off].Start, st1.out,
                                ostart, oend))

CoreFrom(o, i, to, tid, ostart, oend, st) ==
    IF i > to THEN st
    ELSE CoreBlock(o, i, to, tid, ostart, oend, o.Offset[i],
                   [st EXCEPT !.io = Append(@, BlockEvent(o.Offset[i]))])

\* bwGetOverlappingIntervalsCore on the blocks o.Offset[from..to]; st.io is
\* extended by the block reads.
bwGetOverlappingIntervalsCore(o, from, to, tid, ostart, oend, st) ==
    IF o.nil \/ to < from
    THEN [st EXCEPT !.out = EmptyIntervals]
    ELSE CoreFrom(o, from, to, tid, ostart, oend, [st EXCEPT !.out = EmptyIntervals])

\* All blocks of the walk result w are decoded; a nil walk result gives nil
\* intervals.
IntervalsOfBlocks(w, tid, start, end) ==
    IF w.out.nil THEN [w EXCEPT !.out = NilIntervals]
    ELSE bwGetOverlappingIntervalsCore(w.out, 1, w.out.N, tid, start, end, w)

IntervalsOfTid(tid, start, end, st) ==
    IF tid = TidNone THEN [st EXCEPT !.out = NilIntervals]
    ELSE IntervalsOfBlocks(BlocksOfTid(tid, start, end, st), tid, start, end)

bwGetOverlappingIntervals(chrom, start, end, st) ==
    IntervalsOfTid(bwGetTid(chrom), start, end, st)

\* ---------------------------------------------------------------- iterator

\* A nil *bwOverlapIterator_t.
NilIter ==
    [nil |-> TRUE, Tid |-> 0, Start |-> 0, End |-> 0, Offset |-> 0,
     BlocksPerIteration |-> 0, Blocks |-> NilBlocks, Intervals |-> NilIntervals,
     DataNil |-> TRUE]

\* FirstBatch that decodes every block of the walk result.
FirstBatchWhole(w, tid, start, end, blocksPerIteration) ==
    IF w.out.nil THEN [w EXCEPT !.out = NilIntervals]
    ELSE bwGetOverlappingIntervalsCore(w.out, 1, w.out.N, tid, start, end, w)

\* bwOverlappingIntervalsIterator.  Data is an interface that is assigned the
\* Intervals pointer, so it compares unequal to nil even when Intervals is nil.
\* The first batch: the first blocksPerIteration blocks of the walk result w.
FirstBatch(w, tid, start, end, blocksPerIteration) ==
    IF w.out.nil THEN [w EXCEPT !.out = NilIntervals]
    ELSE bwGetOverlappingIntervalsCore(w.out, 1, Min(w.out.N, blocksPerIteration),
                                       tid, start, end, w)

\* The iterator returned for the block list and the first batch c.
IteratorOf(blks, c, tid, start, end, blocksPerIteration) ==
    [c EXCEPT !.out =
        [nil |-> FALSE, Tid |-> tid, Start |-> start, End |-> end,
         Offset |-> IF blks.nil THEN 0 ELSE blocksPerIteration,
         BlocksPerIteration |-> blocksPerIteration,
         Blocks |-> blks, Intervals |-> c.out, DataNil |-> FALSE]]

IteratorOfBlocks(w, tid, start, end, blocksPerIteration) ==
    IteratorOf(w.out, FirstBatch(w, tid, start, end, blocksPerIteration),
               tid, start, end, blocksPerIteration)

IteratorOfTid(tid, start, end, blocksPerIteration, st) ==
    IF tid = TidNone THEN [st EXCEPT !.out = NilIter]
    ELSE IteratorOfBlocks(BlocksOfTid(tid, start, end, st),
                          tid, start, end, blocksPerIteration)

bwOverlappingIntervalsIterator(chrom, start, end, blocksPerIteration, st) ==
    IteratorOfTid(bwGetTid(chrom), start, end, blocksPerIteration, st)

\* The number of blocks of the next batch.
CurrentN(it) ==
    IF it.Offset + it.BlocksPerIteration > it.Blocks.N
    THEN it.Blocks.N - it.Offset
    ELSE it.BlocksPerIteration

\* NextOf with the assignment of the new batch to iter.Intervals left out.
NextOfStaleBatch(it, c) ==
    IF c.out.nil THEN [c EXCEPT !.out = NilIter]
    ELSE [c EXCEPT !.out =
             [it EXCEPT !.DataNil = FALSE,
                        !.Offset = it.Offset + it.BlocksPerIteration]]

\* The iterator after the batch c: nil when the batch failed.
NextOf(it, c) ==
    IF c.out.nil THEN [c EXCEPT !.out = NilIter]
    ELSE [c EXCEPT !.out =
             [it EXCEPT !.Intervals = c.out, !.DataNil = FALSE,
                        !.Offset = it.Offset + it.BlocksPerIteration]]

\* bwIteratorNext on a bigWig file (Bw.Type = 0).
bwIteratorNext(it, st) ==
    IF it.nil \/ it.Blocks.nil THEN [st EXCEPT !.out = NilIter]
    ELSE IF it.Offset < it.Blocks.N
    THEN NextOf(it, bwGetOverlappingIntervalsCore(
                        it.Blocks, it.Offset + 1, it.Offset + CurrentN(it),
                        it.Tid, it.Start, it.End, st))
    ELSE [st EXCEPT !.out = [it EXCEPT !.Intervals = NilIntervals, !.DataNil = TRUE]]

\* The number of blocks ReadBigWigSignal hands to each iteration.
SignalBlocksPerIteration == 10

\* The loop of ReadBigWigSignal: reading iter.Data of a nil iterator is a
\* nil dereference.  The whole Value slice of a batch is appended.
RECURSIVE SignalLoop(_, _)

\* One turn of the loop body: the batch is appended, the iterator advanced to nx.
SignalStep(it, values, nx) ==
    SignalLoop(IF it.Intervals.nil THEN values ELSE values \o ValueSlice(it.Intervals),
               nx)

\* st.out is the iterator the loop condition reads.
SignalLoop(values, st) ==
    IF st.out.nil
    THEN [st EXCEPT !.out = [nil |-> FALSE, panic |-> TRUE, values |-> values]]
    ELSE IF st.out.DataNil
    THEN [st EXCEPT !.out = [nil |-> FALSE, panic |-> FALSE, values |-> values]]
    ELSE SignalStep(st.out, values, bwIteratorNext(st.out, st))

\* A nil iterator from the constructor is reported as an error.
SignalOf(n) ==
    IF n.out.nil
    THEN [n EXCEPT !.out = [nil |-> TRUE, panic |-> FALSE, values |-> <<>>]]
    ELSE SignalLoop(<<>>, n)

ReadBigWigSignal(chrom, start, end, st) ==
    SignalOf(bwOverlappingIntervalsIterator(chrom, start, end,
                                            SignalBlocksPerIteration, st))

\* ------------------------------------------- specification of the walker
\* One node under test at the root offset; the children of a branch root
\* point at an empty leaf.  Queries are drawn by the actions.

NoResult == [op |-> "none"]

\* The handle parts a specification does not use.
NoFile == [kind |-> "none"]
NoUrl == [Type |-> "none"]
NilHdr == [nil |-> TRUE]
NoBatches == [made |-> FALSE, batches |-> 0, items |-> <<>>]

WalkChild ==
    {c \in [ChrIdxStart : 0..MaxTid, BaseStart : 0..MaxBase,
            ChrIdxEnd : 0..MaxTid, BaseEnd : 0..MaxBase,
            DataOffset : {2}, Size : {1}] : c.ChrIdxStart <= c.ChrIdxEnd}

WalkKids == UNION {[1..n -> WalkChild] : n \in 1..MaxKids}

WalkQuery ==
    {w \in [tid : 0..MaxTid, start : 0..(MaxBase + 1), end : 0..(MaxBase + 1)] :
        w.start <= w.end}

EmptyLeaf == [IsLeaf |-> TRUE, NChildren |-> 0, kids |-> <<>>]

\* The children of a leaf point at data blocks: child i at offset i + 1.
WalkLeafKids(ks) == [i \in DOMAIN ks |-> [ks[i] EXCEPT !.DataOffset = i + 1]]

InitWalk ==
    /\ cl = [NKeys |-> 0, Chrom |-> <<>>]
    /\ \E lf \in BOOLEAN, ks \in WalkKids :
          rtree = <<[IsLeaf |-> lf, NChildren |-> Len(ks),
                     kids |-> IF lf THEN WalkLeafKids(ks) ELSE ks], EmptyLeaf>>
    /\ nodeOK = {1, 2}
    /\ blocks = <<>>
    /\ cache = {}
    /\ q \in WalkQuery
    /\ res = NoResult
    /\ io = <<>>
    /\ iter = NilIter
    /\ acc = NoBatches
    /\ file = NoFile
    /\ url = NoUrl
    /\ hdr = NilHdr

\* overlapsLeaf on the root.
WalkLeaf ==
    /\ rtree[RootOffset].IsLeaf
    /\ res' = [op |-> "overlapsLeaf",
               out |-> overlapsLeaf(rtree[RootOffset], q.tid, q.start, q.end),
               accepted |-> {LeafPicked(rtree[RootOffset], q.tid, q.start, q.end)[k] :
                               k \in 1..Len(LeafPicked(rtree[RootOffset], q.tid, q.start, q.end))}]
    /\ io' = <<>>
    /\ UNCHANGED <<cl, rtree, nodeOK, blocks, cache, q, iter, acc, handle>>

\* overlapsNonLeaf on the root.
WalkNonLeaf ==
    /\ ~rtree[RootOffset].IsLeaf
    /\ LET st == overlapsNonLeaf(<<>>, rtree[RootOffset], q.tid, q.start, q.end, WalkStart)
       IN  /\ res' = [op |-> "overlapsNonLeaf", out |-> st.out,
                      accepted |-> {st.visited[k][1] : k \in 1..Len(st.visited)}]
           /\ cache' = st.cache
           /\ io' = st.io
    /\ UNCHANGED <<cl, rtree, nodeOK, blocks, q, iter, acc, handle>>

NextWalk == WalkLeaf \/ WalkNonLeaf

SpecWalk == InitWalk /\ [][NextWalk]_vars

\* The child acceptance predicate as the specification states it.
AcceptPredicate(c, tid, start, end) ==
    /\ tid >= c.ChrIdxStart
    /\ tid <= c.ChrIdxEnd
    /\ IF c.ChrIdxStart = c.ChrIdxEnd
       THEN c.BaseStart < end /\ c.BaseEnd > start
       ELSE /\ (tid # c.ChrIdxStart \/ c.BaseStart < end)
            /\ (tid # c.ChrIdxEnd \/ c.BaseEnd > start)

\* C8: both walkers accept a child iff the acceptance predicate holds of it.
C8_BothWalkersFollowPredicate ==
    res.op \in {"overlapsLeaf", "overlapsNonLeaf"} =>
        \A i \in 1..rtree[RootOffset].NChildren :
            (i \in res.accepted) <=>
                AcceptPredicate(rtree[RootOffset].kids[i], q.tid, q.start, q.end)

\* The branch walker alone follows the predicate.
C8_BranchWalkerFollowsPredicate ==
    res.op = "overlapsNonLeaf" =>
        \A i \in 1..rtree[RootOffset].NChildren :
            (i \in res.accepted) <=>
                AcceptPredicate(rtree[RootOffset].kids[i], q.tid, q.start, q.end)

\* The (DataOffset, Size) pairs the specification's walk returns for a node:
\* those of the accepted children of a leaf, and for a branch the pairs of
\* its accepted children's nodes, in child-array order.
RECURSIVE AcceptedPairsFrom(_, _, _, _, _)
AcceptedPairsFrom(node, tid, start, end, i) ==
    IF i > node.NChildren THEN <<>>
    ELSE IF ~AcceptPredicate(node.kids[i], tid, start, end)
    THEN AcceptedPairsFrom(node, tid, start, end, i + 1)
    ELSE (IF node.IsLeaf
          THEN <<<<node.kids[i].DataOffset, node.kids[i].Size>>>>
          ELSE AcceptedPairsFrom(rtree[node.kids[i].DataOffset], tid, start, end, 1))
         \o AcceptedPairsFrom(node, tid, start, end, i + 1)

\* The pairs of a returned block list, in order.
PairsOf(b) == [k \in 1..b.N |-> <<b.Offset[k], b.Size[k]>>]

\* C20: the walk returns exactly the (dataOffset, size) pair of every leaf
\* child that satisfies the acceptance predicate and is reached through
\* accepted branch children, each once, in depth-first child-array order.
C20_WalkReturnsAcceptedLeaves ==
    res.op \in {"overlapsLeaf", "overlapsNonLeaf"} =>
        /\ ~res.out.nil
        /\ PairsOf(res.out) =
               AcceptedPairsFrom(rtree[RootOffset], q.tid, q.start, q.end, 1)

\* ------------------------------------- specification of the query machine
\* An opened bigWig file (header, chromosome list, index and root loaded by
\* OpenBigWig) and one query; the actions are the operations of the handle.

MaxBlocks == 2   \* data blocks of a generated file
MaxK == 2        \* largest blocksPerIteration handed to the iterator

Chr1 == <<1>>
Chr2 == <<2>>
ChrX == <<3>>

Rec(s, e, v) == [s |-> s, e |-> e, v |-> v]
Box(cs, bs, ce, be) == [ChrIdxStart |-> cs, BaseStart |-> bs, ChrIdxEnd |-> ce, BaseEnd |-> be]
Block(fault, tid, start, step, span, type, n, recs) ==
    [fault |-> fault, Tid |-> tid, Start |-> start, Step |-> step, Span |-> span,
     Type |-> type, NItems |-> n, recs |-> recs]

BedGraphBlock == Block("none", 0, 1, 0, 0, 1, 2, <<Rec(1, 3, 1), Rec(3, 5, 2)>>)
FixedStepBlock == Block("none", 0, 0, 2, 1, 3, 3, <<Rec(0, 0, 1), Rec(0, 0, 2), Rec(0, 0, 3)>>)
OtherTidBlock == Block("none", 1, 0, 0, 0, 1, 1, <<Rec(0, 2, 5)>>)
UnreadableBlock == Block("zlib", 0, 0, 0, 0, 1, 0, <<>>)
UnseekableBlock == Block("seek", 0, 0, 0, 0, 1, 0, <<>>)
TruncatedBlock == Block("none", 0, 5, 0, 0, 1, 3, <<Rec(5, 7, 4)>>)

\* Index entries: the bounding box of a leaf child and the block it points at.
Catalog ==
    { [box |-> Box(0, 1, 0, 5), block |-> BedGraphBlock],
      [box |-> Box(0, 0, 0, 7), block |-> FixedStepBlock],
      [box |-> Box(0, 4, 1, 2), block |-> OtherTidBlock],
      [box |-> Box(0, 0, 0, 7), block |-> UnreadableBlock],
      [box |-> Box(0, 5, 0, 7), block |-> TruncatedBlock] }

GoodEntry == [box |-> Box(0, 1, 0, 5), block |-> BedGraphBlock]
BadEntry == [box |-> Box(0, 0, 0, 7), block |-> UnreadableBlock]
LostEntry == [box |-> Box(0, 0, 0, 7), block |-> UnseekableBlock]

\* Files with more blocks than one iteration of ReadBigWigSignal takes: all
\* blocks readable (bad = 0), the first one unreadable, or the seek to the
\* last one failing.
LongEntries ==
    { [i \in 1..(SignalBlocksPerIteration + 1) |->
          IF i # bad THEN GoodEntry ELSE IF i = 1 THEN BadEntry ELSE LostEntry] :
        bad \in {0, 1, SignalBlocksPerIteration + 1} }

EntryLists == UNION {[1..n -> Catalog] : n \in 0..MaxBlocks} \cup LongEntries

\* The leaf child of entry es[i]: the block lies at offset i.
LeafKid(es, i) ==
    [ChrIdxStart |-> es[i].box.ChrIdxStart, BaseStart |-> es[i].box.BaseStart,
     ChrIdxEnd |-> es[i].box.ChrIdxEnd, BaseEnd |-> es[i].box.BaseEnd,
     DataOffset |-> i, Size |-> 1]

LeafNode(es, from, to) ==
    [IsLeaf |-> TRUE, NChildren |-> to - from + 1,
     kids |-> [k \in 1..(to - from + 1) |-> LeafKid(es, from + k - 1)]]

\* The branch child that covers a whole chromosome range and points at off.
BranchKid(off) ==
    [ChrIdxStart |-> 0, BaseStart |-> 0, ChrIdxEnd |-> MaxTid, BaseEnd |-> WordMod - 1,
     DataOffset |-> off, Size |-> 0]

BranchNode == [IsLeaf |-> FALSE, NChildren |-> 2, kids |-> <<BranchKid(2), BranchKid(3)>>]

QueryRanges == {<<0, 7>>, <<2, 2>>, <<2, 4>>, <<4, 7>>}

Queries ==
    {[chrom |-> Chr1, start |-> r[1], end |-> r[2], k |-> k] :
        r \in QueryRanges, k \in 1..MaxK}
    \cup {[chrom |-> c, start |-> 0, end |-> 7, k |-> 1] : c \in {Chr2, ChrX}}

Init ==
    /\ cl = [NKeys |-> 2, Chrom |-> <<Chr1, Chr2>>]
    /\ \E es \in EntryLists :
          /\ blocks = [i \in 1..Len(es) |-> es[i].block]
          /\ \/ /\ rtree = <<LeafNode(es, 1, Len(es))>>
                /\ nodeOK = {1}
             \/ /\ Len(es) >= 2
                /\ Len(es) <= MaxBlocks
                /\ rtree = <<BranchNode, LeafNode(es, 1, 1), LeafNode(es, 2, Len(es))>>
                /\ nodeOK \in {{1, 2, 3}, {1, 2}}
    /\ cache = {}
    /\ q \in Queries
    /\ res = NoResult
    /\ io = <<>>
    /\ iter = NilIter
    /\ acc = NoBatches
    /\ file = NoFile
    /\ url = NoUrl
    /\ hdr = NilHdr

\* bwGetOverlappingIntervals(fp, chrom, start, end)
GetOverlappingIntervals ==
    LET r == bwGetOverlappingIntervals(q.chrom, q.start, q.end, WalkStart)
    IN  /\ res' = [op |-> "intervals", nil |-> r.out.nil, panic |-> FALSE,
                   L |-> r.out.L, M |-> r.out.M, items |-> r.out.items,
                   values |-> <<>>]
        /\ cache' = r.cache
        /\ io' = r.io
        /\ UNCHANGED <<cl, rtree, nodeOK, blocks, q, iter, acc, handle>>

\* bwOverlappingIntervalsIterator(fp, chrom, start, end, k); the caller keeps
\* the intervals of the first batch.
IterNew ==
    LET r == bwOverlappingIntervalsIterator(q.chrom, q.start, q.end, q.k, WalkStart)
    IN  /\ iter' = r.out
        /\ acc' = [made |-> TRUE, batches |-> 1,
                   items |-> IF r.out.nil THEN <<>> ELSE r.out.Intervals.items]
        /\ res' = [op |-> "iterNew"]
        /\ cache' = r.cache
        /\ io' = r.io
        /\ UNCHANGED <<cl, rtree, nodeOK, blocks, q, handle>>

\* The caller's loop "for iter.Data != nil { ...; iter = bwIteratorNext(iter) }".
IterNext ==
    /\ acc.made
    /\ ~iter.nil
    /\ ~iter.DataNil
    /\ LET r == bwIteratorNext(iter, WalkStart)
       IN  /\ iter' = r.out
           /\ acc' = [made |-> TRUE, batches |-> acc.batches + 1,
                      items |-> IF r.out.nil THEN acc.items
                                ELSE acc.items \o r.out.Intervals.items]
           /\ res' = [op |-> "iterNext"]
           /\ io' = r.io
    /\ UNCHANGED <<cl, rtree, nodeOK, blocks, q, cache, handle>>

\* Bigwig_file_out.ReadBigWigSignal(chrom, start, end)
ReadSignal ==
    LET r == ReadBigWigSignal(q.chrom, q.start, q.end, WalkStart)
    IN  /\ res' = [op |-> "signal", nil |-> r.out.nil, panic |-> r.out.panic,
                   L |-> 0, M |-> 0, items |-> <<>>, values |-> r.out.values]
        /\ cache' = r.cache
        /\ io' = r.io
        /\ UNCHANGED <<cl, rtree, nodeOK, blocks, q, iter, acc, handle>>

Next == GetOverlappingIntervals \/ IterNew \/ IterNext \/ ReadSignal

Spec == Init /\ [][Next]_vars

\* The result of bwGetOverlappingIntervals for the query of the state.
SingleShot == bwGetOverlappingIntervals(q.chrom, q.start, q.end, WalkStart).out

\* The caller's loop has ended: the iterator is nil or its Data is nil.
IterationEnded == acc.made /\ (iter.nil \/ iter.DataNil)

BlockItems(i) ==
    bwGetOverlappingIntervalsCore(iter.Blocks, i, i, iter.Tid, iter.Start, iter.End,
                                  WalkStart).out.items

RECURSIVE ItemsOfBlocks(_, _)
ItemsOfBlocks(i, to) ==
    IF i > to THEN <<>> ELSE BlockItems(i) \o ItemsOfBlocks(i + 1, to)

\* The next() calls made so far, and the calls after which the iteration
\* over N blocks in batches of k is over: max(1, ceil(N / k)).
NextCalls == acc.batches - 1
TerminalCalls(N, k) == IF (N + k - 1) \div k > 1 THEN (N + k - 1) \div k ELSE 1

\* An iterator over a block list all of whose blocks can be decoded.
IteratorOverReadableBlocks ==
    /\ acc.made
    /\ ~iter.nil
    /\ ~iter.Blocks.nil
    /\ \A i \in 1..iter.Blocks.N : ~BlockFails(iter.Blocks.Offset[i])

\* C27: for blocksPerIteration k >= 1 and a list of N blocks, batch j is the
\* decoding of the blocks [j*k, min((j+1)*k, N)) in list order, a batch
\* without intervals does not end the iteration, the block list is the one
\* the walk returned (N unchanged by the construction), and the terminal
\* state (Data nil) is reached after exactly max(1, ceil(N/k)) next() calls.
C27_IteratorBatching ==
    IteratorOverReadableBlocks =>
        /\ iter.Blocks = bwGetOverlappingBlocks(q.chrom, q.start, q.end, WalkStart).out
        /\ NextCalls <= TerminalCalls(iter.Blocks.N, q.k)
        /\ iter.DataNil <=> (NextCalls = TerminalCalls(iter.Blocks.N, q.k))
        /\ ~iter.DataNil =>
              /\ ~iter.Intervals.nil
              /\ iter.Intervals.items =
                    ItemsOfBlocks(NextCalls * q.k + 1,
                                  Min((NextCalls + 1) * q.k, iter.Blocks.N))
        /\ acc.items = ItemsOfBlocks(1, Min((NextCalls + 1) * q.k, iter.Blocks.N))

\* An iteration over two blocks in batches of one block has ended after two
\* next() calls; its first batch held no interval and its second one did.
C27_EmptyBatchThenIntervals ==
    /\ IteratorOverReadableBlocks
    /\ iter.DataNil
    /\ q.k = 1
    /\ iter.Blocks.N = 2
    /\ NextCalls = 2
    /\ BlockItems(1) = <<>>
    /\ Len(acc.items) > 0

\* C28: ReadBigWigSignal returns exactly one value per interval the decoder
\* emits for the query, in traversal order, and nothing from the unused
\* capacity of the interval container.
C28_OneValuePerInterval ==
    (res.op = "signal" /\ ~SingleShot.nil) =>
        /\ ~res.nil
        /\ ~res.panic
        /\ res.values = [k \in 1..Len(SingleShot.items) |-> SingleShot.items[k].value]

\* A node or block the last operation tried to load could not be loaded.
NodeFailureMet ==
    \E k \in 1..Len(io) : io[k][1] = "node" /\ io[k][2] \notin nodeOK

BlockFailureMet ==
    \E k \in 1..Len(io) : io[k][1] \in {"seek", "block"} /\ BlockFails(io[k][2])

\* C3: no operation ends in a runtime panic, and a failure it met is visible
\* in its result.
C3_NeverPanics ==
    res.op \in {"intervals", "signal"} =>
        /\ ~res.panic
        /\ (NodeFailureMet \/ BlockFailureMet) => res.nil

\* C4: when a block selected by the query cannot be decoded, the query
\* reports failure and returns no interval and no value of any block.
C4_BlockErrorAbortsQuery ==
    (res.op \in {"intervals", "signal"} /\ BlockFailureMet) =>
        /\ res.nil
        /\ ~res.panic
        /\ res.items = <<>>
        /\ res.values = <<>>

\* C5: a query with start = end returns no interval and reads no data block.
C5_ZeroWidthQueryIsEmpty ==
    (res.op = "intervals" /\ q.start = q.end) =>
        /\ res.items = <<>>
        /\ \A k \in 1..Len(io) : io[k][1] \notin {"seek", "block"}

\* The name of the query is not in the chromosome table.
UnknownChromosome == \A i \in 1..cl.NKeys : cl.Chrom[i] # q.chrom

MaxPos == 2    \* largest stored position
MaxRecs == 2   \* records of a generated block
MaxSpan == 2   \* largest header span
MaxStep == 2   \* largest header step

\* Record sequences of length n whose j-th value is j.
RecsOf(n, starts, ends) ==
    { [j \in 1..n |-> Rec(f[j][1], f[j][2], j)] : f \in [1..n -> starts \X ends] }

DecodeBlocks ==
    UNION { UNION {
        { Block("none", tid, 0, 0, 0, 1, n, recs) :
            recs \in RecsOf(n, 0..MaxPos, 0..MaxPos) }
        \cup { Block("none", tid, 0, 0, span, 2, n, recs) :
                 span \in 0..MaxSpan, recs \in RecsOf(n, 0..MaxPos, {0}) }
        \cup { Block("none", tid, start, step, span, 3, n, [j \in 1..n |-> Rec(0, 0, j)]) :
                 start \in 0..MaxPos, step \in 0..MaxStep, span \in 0..MaxSpan }
        : n \in 0..MaxRecs } : tid \in {0, 1} }

\* The block that may precede the generated one: fixedStep, two records.
LeadingBlock == Block("none", 0, 1, 1, 1, 3, 2, <<Rec(0, 0, 1), Rec(0, 0, 2)>>)

DecodeQueries == [tid : {0}, start : 0..(MaxPos + 1), end : 0..(MaxPos + 1)]

InitDecode ==
    /\ cl = [NKeys |-> 0, Chrom |-> <<>>]
    /\ rtree = <<>>
    /\ nodeOK = {}
    /\ \E b \in DecodeBlocks : blocks \in {<<b>>, <<LeadingBlock, b>>}
    /\ cache = {}
    /\ q \in DecodeQueries
    /\ res = NoResult
    /\ io = <<>>
    /\ iter = NilIter
    /\ acc = NoBatches
    /\ file = NoFile
    /\ url = NoUrl
    /\ hdr = NilHdr

\* The overlap block list that names every block of the file, in file order.
EveryBlock ==
    [nil |-> FALSE, N |-> Len(blocks),
     Offset |-> [i \in 1..Len(blocks) |-> i], Size |-> [i \in 1..Len(blocks) |-> 1]]

\* bwGetOverlappingIntervalsCore(fp, o, tid, ostart, oend)
DecodeCore ==
    /\ res' = [op |-> "decode",
               out |-> bwGetOverlappingIntervalsCore(EveryBlock, 1, Len(blocks),
                           q.tid, q.start, q.end, WalkStart).out]
    /\ UNCHANGED <<cl, rtree, nodeOK, blocks, cache, q, io, iter, acc, handle>>

NextDecode == DecodeCore

SpecDecode == InitDecode /\ [][NextDecode]_vars

\* The records a block stores, as the format defines them: triples
\* (start, end, value) in uint32 arithmetic.
StoredStart(b, j) ==
    IF b.Type = 3 THEN Wrap(b.Start + j * b.Step) ELSE b.recs[j].s

StoredEnd(b, j) ==
    IF b.Type = 1 THEN b.recs[j].e ELSE Wrap(StoredStart(b, j) + b.Span)

StoredRecords(b) ==
    [j \in 1..b.NItems |->
        [start |-> StoredStart(b, j), end |-> StoredEnd(b, j), value |-> b.recs[j].v]]

\* The filter as the specification states it.
Emitted(r) == r.end > q.start /\ r.start < q.end

\* The records of the blocks i.. whose header tid is the query tid that pass
\* the filter, in file order.
RECURSIVE EmittedFrom(_)
EmittedFrom(i) ==
    IF i > Len(blocks) THEN <<>>
    ELSE (IF blocks[i].Tid = q.tid
          THEN SelectSeq(StoredRecords(blocks[i]), Emitted)
          ELSE <<>>) \o EmittedFrom(i + 1)

\* C9: a record of a block whose header tid is the query tid is emitted iff
\* its end > query.start and its start < query.end, with its stored start,
\* end and value (never clamped to the query).
C9_FilterWithoutClamping ==
    res.op = "decode" => (~res.out.nil /\ res.out.items = EmittedFrom(1))

\* A record is emitted that extends beyond the query on both sides, and
\* another record of the same block is filtered out.
C9_UnclampedRecordEmitted ==
    /\ res.op = "decode"
    /\ \E k \in 1..Len(res.out.items) :
          res.out.items[k].start < q.start /\ res.out.items[k].end > q.end
    /\ Len(blocks) = 1
    /\ blocks[1].NItems > Len(res.out.items)

\* The last block of the file and what it contributes to the result.
LastBlock == blocks[Len(blocks)]
FixedStepRecord(b, j) ==
    [start |-> Wrap(b.Start + j * b.Step),
     end |-> Wrap(Wrap(b.Start + j * b.Step) + b.Span),
     value |-> b.recs[j].v]
FixedStepKept(b) == {j \in 1..b.NItems : Emitted(FixedStepRecord(b, j))}

\* C10: record j (j = 0, 1, ...) of a fixedStep block with header
\* (start S, step T, span P) is decoded with start = S + (j+1)*T and
\* end = start + P in uint32 arithmetic, whatever block was decoded before it:
\* the records of the block that pass the filter end the result, in order, at
\* exactly these positions.  The index j of the formula is 1-based.
C10_FixedStepPositions ==
    (res.op = "decode" /\ LastBlock.Type = 3 /\ LastBlock.Tid = q.tid) =>
        /\ ~res.out.nil
        /\ Len(res.out.items) >= Cardinality(FixedStepKept(LastBlock))
        /\ \A j \in FixedStepKept(LastBlock) :
              res.out.items[Len(res.out.items)
                            - Cardinality({i \in FixedStepKept(LastBlock) : i >= j}) + 1]
                  = FixedStepRecord(LastBlock, j)

\* Two records of a fixedStep block with a non-zero step are emitted after
\* the records of another fixedStep block.
C10_SecondFixedStepBlock ==
    /\ res.op = "decode"
    /\ Len(blocks) = 2
    /\ LastBlock.Type = 3
    /\ LastBlock.Tid = q.tid
    /\ LastBlock.Step > 0
    /\ LastBlock.Start # LeadingBlock.Start
    /\ Cardinality(FixedStepKept(LastBlock)) = 2
    /\ Len(res.out.items) > 2

\* -------------------------------- specification of the chromosome table
\* bwReadchromList on a generated chromosome B+ tree, then name lookups.

KeySize == 2      \* bytes of a key of the chromosome tree
MaxByte == 1      \* largest byte of a key
MaxChromId == 1   \* largest id a leaf item stores
MaxItems == 1     \* items of a leaf block

\* bytes.Trim(chrom, "\x00"): the NUL bytes are cut from both ends.
RECURSIVE TrimLeft(_)
TrimLeft(key) ==
    IF key # <<>> /\ Head(key) = 0 THEN TrimLeft(Tail(key)) ELSE key

RECURSIVE TrimRight(_)
TrimRight(key) ==
    IF key # <<>> /\ key[Len(key)] = 0
    THEN TrimRight(SubSeq(key, 1, Len(key) - 1))
    ELSE key

Trim(key) == TrimRight(TrimLeft(key))

\* cl.Chrom[idx] = name, the table grown to idx + 1 entries when it is shorter.
StoreName(chrom, idx, name) ==
    [j \in 1..(IF idx >= Len(chrom) THEN idx + 1 ELSE Len(chrom)) |->
        IF j = idx + 1 THEN name
        ELSE IF j <= Len(chrom) THEN chrom[j]
        ELSE <<>>]

\* The items of a leaf from item k on, stored into the table chrom.
RECURSIVE LeafItemsFrom(_, _, _)
LeafItemsFrom(items, k, chrom) ==
    IF k > Len(items) THEN chrom
    ELSE LeafItemsFrom(items, k + 1,
                       StoreName(chrom, items[k].id, Trim(items[k].key)))

\* The parse state st: err is set by a failed read, rv counts the leaf items.
readChromLeaf(block, st) ==
    IF block.short THEN [st EXCEPT !.err = TRUE]
    ELSE [st EXCEPT !.rv = @ + Len(block.items),
                    !.Chrom = LeafItemsFrom(block.items, 1, @)]

RECURSIVE readChromBlock(_, _)
RECURSIVE NonLeafKidsFrom(_, _, _)

\* The children of a non-leaf block from child k on; an error ends the parse.
NonLeafKidDone(kids, k, after) ==
    IF after.err THEN after ELSE NonLeafKidsFrom(kids, k + 1, after)

NonLeafKidsFrom(kids, k, st) ==
    IF k > Len(kids) THEN st
    ELSE NonLeafKidDone(kids, k, readChromBlock(kids[k], st))

readChromNonLeaf(block, st) == NonLeafKidsFrom(block.kids, 1, st)

readChromBlock(block, st) ==
    IF block.IsLeaf THEN readChromLeaf(block, st) ELSE readChromNonLeaf(block, st)

\* The chromosome list of a parse that ended in state st: nil on an error and
\* when the items read are not itemCount.
ChromListOf(itemCount, st) ==
    IF st.err \/ st.rv # itemCount
    THEN [nil |-> TRUE, NKeys |-> 0, Chrom |-> <<>>]
    ELSE [nil |-> FALSE, NKeys |-> itemCount, Chrom |-> st.Chrom]

bwReadchromList(f) ==
    ChromListOf(f.itemCount,
                readChromBlock(f.root, [err |-> FALSE, rv |-> 0,
                                        Chrom |-> [j \in 1..f.itemCount |-> <<>>]]))

ChromKeys == [1..KeySize -> 0..MaxByte]
ChromItems == [key : ChromKeys, id : 0..MaxChromId]
ChromLeaf(items, short) == [IsLeaf |-> TRUE, short |-> short, items |-> items, kids |-> <<>>]

ChromLeaves ==
    { ChromLeaf(items, FALSE) : items \in UNION {[1..n -> ChromItems] : n \in 0..MaxItems} }
    \cup {ChromLeaf(<<>>, TRUE)}

\* One-item leaves, the children of a generated non-leaf root.
ChromSmallLeaves ==
    { ChromLeaf(<<it>>, FALSE) : it \in ChromItems } \cup {ChromLeaf(<<>>, TRUE)}

ChromRoots ==
    ChromLeaves
    \cup { [IsLeaf |-> FALSE, short |-> FALSE, items |-> <<>>, kids |-> <<a, b>>] :
             a \in ChromSmallLeaves, b \in ChromSmallLeaves }

InitChrom ==
    /\ cl = [NKeys |-> 0, Chrom |-> <<>>]
    /\ rtree = <<>>
    /\ nodeOK = {}
    /\ blocks = <<>>
    /\ cache = {}
    /\ q = [chrom |-> <<>>, i |-> 0]
    /\ res = NoResult
    /\ io = <<>>
    /\ iter = NilIter
    /\ acc = NoBatches
    /\ \E n \in 0..(MaxItems + 1), root \in ChromRoots :
          file = [kind |-> "chromTree", itemCount |-> n, root |-> root]
    /\ url = NoUrl
    /\ hdr = NilHdr

\* Step 4 of OpenBigWig: fp.Cl is set when bwReadchromList succeeds.
ReadChromList ==
    /\ res = NoResult
    /\ res' = [op |-> "chromList", ok |-> ~bwReadchromList(file).nil]
    /\ cl' = IF bwReadchromList(file).nil THEN cl
             ELSE [NKeys |-> bwReadchromList(file).NKeys,
                   Chrom |-> bwReadchromList(file).Chrom]
    /\ UNCHANGED <<rtree, nodeOK, blocks, cache, q, io, iter, acc, handle>>

\* bwGetTid of the name stored at table index i of the opened file.
GetTid ==
    /\ res.op \in {"chromList", "tid"}
    /\ res.op = "chromList" => res.ok
    /\ \E i \in 0..(cl.NKeys - 1) :
          /\ q' = [chrom |-> cl.Chrom[i + 1], i |-> i]
          /\ res' = [op |-> "tid", tid |-> bwGetTid(cl.Chrom[i + 1])]
    /\ UNCHANGED <<cl, rtree, nodeOK, blocks, cache, io, iter, acc, handle>>

NextChrom == ReadChromList \/ GetTid

SpecChrom == InitChrom /\ [][NextChrom]_vars

\* The names stored at the table indexes [0, NKeys) are pairwise different.
NamesUnique ==
    \A i, j \in 1..cl.NKeys : i # j => cl.Chrom[i] # cl.Chrom[j]

\* C6 as stated: with unique names, bwGetTid of the name stored at index i
\* returns i, never TID_NONE, for every i in [0, nKeys).
C6_TidOfEveryStoredName ==
    (res.op = "tid" /\ NamesUnique) => res.tid = q.i

\* C6 as amended: with unique names, bwGetTid of the name stored at index i
\* returns i for every i in [0, nKeys) whose stored name is not empty, and
\* TID_NONE for the empty name.
C6_TidOfNonEmptyStoredName ==
    (res.op = "tid" /\ NamesUnique) =>
        res.tid = (IF q.chrom = <<>> THEN TidNone ELSE q.i)

\* The lookup of a non-empty name stored at index 1 of a table of two names.
C6_SecondNameLookedUp ==
    /\ res.op = "tid"
    /\ NamesUnique
    /\ cl.NKeys = 2
    /\ q.i = 1
    /\ q.chrom # <<>>
    /\ res.tid = 1

\* ------------------------------------------- specification of the resource
\* Open, URL.Read and URL.Seek on a local file and on a remote file of
\* url.len bytes.  The buffer of a remote resource holds the file bytes
\* [bufLo, bufHi), or bufHi - bufLo bytes of the body of an error response
\* (junk).  url.next is the position the caller is at: the target of the last
\* seek plus the bytes delivered since.

MaxLen == 4    \* largest file length in bytes
MaxRead == 2   \* largest read request in bytes
MaxOps == 4    \* operations on one resource
MaxBody == 1   \* largest body of an error response in bytes

\* The bytes one Range request of fillBuffer asks for ("bytes=pos-pos+65535"
\* in the code), scaled so that a file of MaxLen bytes spans several windows.
RangeWindow == 2

\* A file name is the sequence of its characters.
HttpPrefix == <<"h", "t", "t", "p", ":", "/", "/">>
HttpsPrefix == <<"h", "t", "t", "p", "s", ":", "/", "/">>
FtpPrefix == <<"f", "t", "p", ":", "/", "/">>

\* len(fname) >= len(p) && fname[:len(p)] == p
HasPrefix(fname, p) == Len(fname) >= Len(p) /\ SubSeq(fname, 1, Len(p)) = p

\* The URL struct for a file of n bytes.  osOpen tells whether os.Open was
\* called with the name; seekStart and honoured are history: the last
\* successful seek was a seek from the start, and every response since then
\* was the one of a server that honours Range requests.
Resource(type, fname, n, osOpen) ==
    [nil |-> FALSE, Type |-> type, FName |-> fname, osOpen |-> osOpen,
     len |-> n, pos |-> 0, FilePos |-> 0, bufLo |-> 0, bufHi |-> 0, junk |-> FALSE,
     next |-> 0, ops |-> 0, seekStart |-> FALSE, honoured |-> TRUE]

\* The result of an Open that returned an error: os.Open failed.
NilResource(fname) ==
    [Resource("none", fname, 0, TRUE) EXCEPT !.nil = TRUE]

\* Open(fname): exists tells whether os.Open finds a file of that name.
Open(fname, exists, n) ==
    IF HasPrefix(fname, HttpPrefix) THEN Resource("BWG_HTTP", fname, n, FALSE)
    ELSE IF HasPrefix(fname, HttpsPrefix) THEN Resource("BWG_HTTPS", fname, n, FALSE)
    ELSE IF exists THEN Resource("BWG_FILE", fname, n, TRUE)
    ELSE NilResource(fname)

\* What client.Do and the body of the response can bring for the request
\* "bytes=FilePos-...": a transport error, the bytes of the range (206), 416
\* for a range that starts at or after the end of the file, or another 4xx
\* or 5xx status; an error response has a body of 0..MaxBody bytes.
Responses(u) ==
    {[kind |-> "net", code |-> 0, body |-> 0]}
    \cup (IF u.FilePos < u.len
          THEN {[kind |-> "range", code |-> 206,
                 body |-> IF RangeWindow < u.len - u.FilePos
                          THEN RangeWindow ELSE u.len - u.FilePos]}
          ELSE {[kind |-> "status", code |-> 416, body |-> b] : b \in 0..MaxBody})
    \cup {[kind |-> "status", code |-> c, body |-> b] : c \in {404, 500}, b \in 0..MaxBody}

\* The response a read needs no request for.
NoResponse == [kind |-> "none", code |-> 0, body |-> 0]

\* fillBuffer: the body of the response, whatever its status, becomes the
\* buffer and FilePos moves on by its length.
fillBuffer(u, resp) ==
    IF resp.kind = "net" THEN [u |-> u, err |-> TRUE]
    ELSE [u |-> [u EXCEPT !.FilePos = @ + resp.body,
                          !.bufLo = IF resp.kind = "range" THEN u.FilePos ELSE 0,
                          !.bufHi = (IF resp.kind = "range" THEN u.FilePos ELSE 0) + resp.body,
                          !.junk = (resp.kind = "status"),
                          !.honoured = @ /\ resp.code \in {206, 416}],
          err |-> FALSE]

\* bytes.Buffer.Read and os.File.Read: the first n bytes at hand are
\* delivered, [from, from + n) of the file unless they are junk.
Delivered(u, from, n, junk) ==
    [u |-> [u EXCEPT !.next = @ + n], from |-> from, n |-> n, junk |-> junk, err |-> n = 0]

BufferRead(u, n) ==
    Delivered([u EXCEPT !.bufLo = @ + Min(n, u.bufHi - u.bufLo)],
              u.bufLo, Min(n, u.bufHi - u.bufLo), u.junk)

FileRead(u, n) ==
    Delivered([u EXCEPT !.pos = @ + Min(n, u.len - u.pos)],
              u.pos, Min(n, u.len - u.pos), FALSE)

\* The read after fillBuffer returned f.
ReadFilled(u, n, f) ==
    IF f.err THEN [u |-> u, from |-> u.next, n |-> 0, junk |-> FALSE, err |-> TRUE]
    ELSE BufferRead(f.u, n)

\* URL.Read(p) with len(p) = n; resp is the response to the Range request,
\* if one is made.
Read(u, n, resp) ==
    IF u.Type = "BWG_FILE" THEN FileRead(u, n)
    ELSE IF u.bufLo = u.bufHi THEN ReadFilled(u, n, fillBuffer(u, resp))
    ELSE BufferRead(u, n)

\* Seek of a remote resource: absPos is offset or FilePos + offset, and the
\* buffer is reset.
SeekRemote(u, offset, whence) ==
    [u |-> [u EXCEPT !.FilePos = (IF whence = "SeekStart" THEN offset ELSE @ + offset),
                     !.bufLo = 0, !.bufHi = 0, !.junk = FALSE,
                     !.next = (IF whence = "SeekStart" THEN offset ELSE @ + offset),
                     !.seekStart = (whence = "SeekStart"), !.honoured = TRUE],
     pos |-> (IF whence = "SeekStart" THEN offset ELSE u.FilePos + offset),
     err |-> FALSE]

\* os.File.Seek
SeekFile(u, offset, whence) ==
    IF whence = "SeekStart"
    THEN [u |-> [u EXCEPT !.pos = offset, !.next = offset, !.seekStart = TRUE],
          pos |-> offset, err |-> FALSE]
    ELSE IF whence = "SeekCurrent"
    THEN [u |-> [u EXCEPT !.pos = @ + offset, !.next = u.pos + offset, !.seekStart = FALSE],
          pos |-> u.pos + offset, err |-> FALSE]
    ELSE [u |-> [u EXCEPT !.pos = u.len + offset, !.next = u.len + offset, !.seekStart = FALSE],
          pos |-> u.len + offset, err |-> FALSE]

\* URL.Seek(offset, whence): the new offset, or an error.
Seek(u, offset, whence) ==
    IF u.Type = "BWG_FILE" THEN SeekFile(u, offset, whence)
    ELSE IF whence = "SeekEnd" THEN [u |-> u, pos |-> 0, err |-> TRUE]
    ELSE SeekRemote(u, offset, whence)

bwTell(u) == Seek(u, 0, "SeekCurrent")

bwSetPos(u, pos) == Seek(u, pos, "SeekStart")

\* The names handed to Open: remote, ftp, local, and near misses of the
\* remote prefixes.
FileNames ==
    { HttpPrefix \o <<"x">>, HttpsPrefix \o <<"x">>, FtpPrefix \o <<"x">>,
      <<"x">>, <<"h", "t", "t", "p", ":", "/">>, <<"H", "T", "T", "P", ":", "/", "/", "x">> }

\* The state after Open(fname).
InitRes ==
    /\ cl = [NKeys |-> 0, Chrom |-> <<>>]
    /\ rtree = <<>>
    /\ nodeOK = {}
    /\ blocks = <<>>
    /\ cache = {}
    /\ q = [op |-> "none"]
    /\ res = NoResult
    /\ io = <<>>
    /\ iter = NilIter
    /\ acc = NoBatches
    /\ file = NoFile
    /\ \E fname \in FileNames, exists \in BOOLEAN, n \in 1..MaxLen :
          url = Open(fname, exists, n)
    /\ hdr = NilHdr

ResUnchanged == <<cl, rtree, nodeOK, blocks, cache, io, iter, acc, file, hdr>>

\* fp.URL.Read of n bytes.
ResRead ==
    /\ ~url.nil
    /\ url.ops < MaxOps
    /\ \E n \in 1..MaxRead,
          resp \in (IF url.Type # "BWG_FILE" /\ url.bufLo = url.bufHi
                    THEN Responses(url) ELSE {NoResponse}) :
          /\ q' = [op |-> "read", n |-> n, at |-> url.next, FilePos |-> url.FilePos]
          /\ res' = [op |-> "read", from |-> Read(url, n, resp).from,
                     n |-> Read(url, n, resp).n, junk |-> Read(url, n, resp).junk,
                     err |-> Read(url, n, resp).err,
                     code |-> resp.code,
                     range |-> IF resp.kind = "none" THEN -1 ELSE url.FilePos]
          /\ url' = [Read(url, n, resp).u EXCEPT !.ops = @ + 1]
    /\ UNCHANGED ResUnchanged

\* bwTell(fp)
ResTell ==
    /\ ~url.nil
    /\ url.ops < MaxOps
    /\ q' = [op |-> "tell", at |-> url.next]
    /\ res' = [op |-> "tell", pos |-> bwTell(url).pos]
    /\ url' = [bwTell(url).u EXCEPT !.ops = @ + 1]
    /\ UNCHANGED ResUnchanged

\* bwSetPos(fp, p)
ResSetPos ==
    /\ ~url.nil
    /\ url.ops < MaxOps
    /\ \E p \in 0..url.len :
          /\ q' = [op |-> "seek", at |-> p]
          /\ res' = [op |-> "seek", pos |-> bwSetPos(url, p).pos, err |-> bwSetPos(url, p).err]
          /\ url' = [bwSetPos(url, p).u EXCEPT !.ops = @ + 1]
    /\ UNCHANGED ResUnchanged

\* fp.URL.Seek(d, io.SeekCurrent) and fp.URL.Seek(d, io.SeekEnd)
ResSeek ==
    /\ ~url.nil
    /\ url.ops < MaxOps
    /\ \E whence \in {"SeekCurrent", "SeekEnd"}, d \in 0..1 :
          /\ q' = [op |-> "urlseek", whence |-> whence, d |-> d, at |-> url.next]
          /\ res' = [op |-> "urlseek", pos |-> Seek(url, d, whence).pos,
                     err |-> Seek(url, d, whence).err,
                     same |-> (Seek(url, d, whence).u = url)]
          /\ url' = [Seek(url, d, whence).u EXCEPT !.ops = @ + 1]
    /\ UNCHANGED ResUnchanged

NextRes == ResRead \/ ResTell \/ ResSetPos \/ ResSeek

SpecRes == InitRes /\ [][NextRes]_vars

\* C2: tell() reports the position the caller is at (the target of the last
\* seek plus the bytes delivered since), and a read delivers the bytes at
\* that position, whatever tell() and seek(Start, tell()) calls came before.
C2_SeekTellIdempotent ==
    /\ res.op = "tell" => res.pos = q.at
    /\ (res.op = "read" /\ res.n > 0 /\ ~res.junk) => res.from = q.at

\* The resource is a remote one.
Remote == ~url.nil /\ url.Type \in {"BWG_HTTP", "BWG_HTTPS"}

\* C15: Open selects the remote variant iff the name starts with http:// or
\* https://; a name that starts with ftp:// fails without os.Open being
\* called with it; every other name is opened as a local path.
C15_ResourceSelectionByURI ==
    /\ Remote <=> (HasPrefix(url.FName, HttpPrefix) \/ HasPrefix(url.FName, HttpsPrefix))
    /\ HasPrefix(url.FName, FtpPrefix) => (url.nil /\ ~url.osOpen)
    /\ (~Remote /\ ~HasPrefix(url.FName, FtpPrefix)) => url.osOpen

\* C17: on a remote resource seek(Start, p) sets the position to p,
\* seek(Current, d) sets it to the position the caller is at plus d, and
\* seek(End, _) fails and leaves the position and the buffer as they were.
C17_RemoteSeek ==
    Remote =>
        /\ res.op = "seek" => (~res.err /\ res.pos = q.at /\ url.FilePos = q.at)
        /\ (res.op = "urlseek" /\ q.whence = "SeekCurrent") =>
               (~res.err /\ res.pos = q.at + q.d /\ url.FilePos = q.at + q.d)
        /\ (res.op = "urlseek" /\ q.whence = "SeekEnd") => (res.err /\ res.same)

\* C18: on a remote resource a read whose Range request is answered with a
\* 4xx or 5xx status fails: no byte is delivered and the position stays.
C18_ErrorStatusFailsRead ==
    (Remote /\ res.op = "read" /\ res.code >= 400) =>
        /\ res.err
        /\ res.n = 0
        /\ url.FilePos = q.FilePos

\* C19: on a remote resource whose server honours Range requests, the reads
\* after seek(Start, p) deliver consecutive bytes of the file from p on, and
\* each refill asks for the range that starts at the first undelivered offset.
C19_ReadsAreConsecutive ==
    (Remote /\ url.seekStart /\ url.honoured /\ res.op = "read") =>
        /\ res.n > 0 => (~res.junk /\ res.from = q.at)
        /\ res.range # -1 => res.range = q.at

\* The reads that start inside the file are consecutive.
C19_ReadsInsideTheFileAreConsecutive ==
    (Remote /\ url.seekStart /\ url.honoured /\ res.op = "read" /\ q.at < url.len) =>
        /\ res.n > 0 => (~res.junk /\ res.from = q.at)
        /\ res.range # -1 => res.range = q.at

\* --------------------------------------------- specification of the header
\* bwHdrRead on a local file that holds a bigWig header at offset 0 and, in
\* some files, the bytes of another bigWig header at a later offset.

MaxLevels == 1   \* zoom levels of a generated header
MaxReads == 3    \* header reads on one handle

\* Byte sizes: the magic, the fixed header with its magic, one zoom header
\* entry, the total summary.
MagicSize == 4
HdrSize == 64
ZoomHdrSize == 24
SummarySize == 40

\* Offsets of the generated files: the embedded header, the summaries, the end.
EmbeddedAt == 200
SummaryAt == 100
EmbeddedSummaryAt == 300
FileLen == 400

\* &bigWigHdr_t{}
ZeroHdr == [nil |-> FALSE, version |-> 0, nLevels |-> 0, summaryoffset |-> 0,
            bufsize |-> 0, summary |-> 0]

\* The header the bytes at an offset decode to; summary names the bytes the
\* total summary is read from.
HdrImage(version, nLevels, summaryoffset, bufsize) ==
    [nil |-> FALSE, version |-> version, nLevels |-> nLevels,
     summaryoffset |-> summaryoffset, bufsize |-> bufsize, summary |-> summaryoffset]

\* binary.Read of n bytes on a local file: all of them, or an error at the end
\* of the file.
ReadFull(u, n) ==
    IF u.pos + n > u.len
    THEN [u |-> [u EXCEPT !.pos = u.len, !.next = u.len], err |-> TRUE]
    ELSE [u |-> [u EXCEPT !.pos = @ + n, !.next = u.pos + n], err |-> FALSE]

\* The summary part of bwHdrRead, after the zoom headers were read into h.
HdrSummary(h, z) ==
    IF z.err THEN [u |-> z.u, hdr |-> NilHdr, err |-> TRUE]
    ELSE IF h.summaryoffset = 0 THEN [u |-> z.u, hdr |-> h, err |-> FALSE]
    ELSE IF ReadFull(Seek(z.u, h.summaryoffset, "SeekStart").u, SummarySize).err
    THEN [u |-> ReadFull(Seek(z.u, h.summaryoffset, "SeekStart").u, SummarySize).u,
          hdr |-> NilHdr, err |-> TRUE]
    ELSE [u |-> ReadFull(Seek(z.u, h.summaryoffset, "SeekStart").u, SummarySize).u,
          hdr |-> h, err |-> FALSE]

\* The fields after the magic: a short read sets bw.Hdr to nil.
HdrFields(h, fl) ==
    IF fl.err THEN [u |-> fl.u, hdr |-> NilHdr, err |-> TRUE]
    ELSE HdrSummary(h, ReadFull(fl.u, h.nLevels * ZoomHdrSize))

\* The magic is read at the current position; bw.Hdr is the zero header when
\* it cannot be read or is not BIGWIG_MAGIC.
HdrMagic(f, at, mg) ==
    IF mg.err \/ at \notin DOMAIN f.images THEN [u |-> mg.u, hdr |-> ZeroHdr, err |-> TRUE]
    ELSE HdrFields(f.images[at], ReadFull(mg.u, HdrSize - MagicSize))

bwHdrRead(f, u) == HdrMagic(f, u.pos, ReadFull(u, MagicSize))

HdrImages ==
    { HdrImage(4, n, so, bs) : n \in 0..MaxLevels, so \in {0, SummaryAt}, bs \in {0, 1} }

HdrFiles ==
    { [kind |-> "bigWig", images |-> (0 :> h)] : h \in HdrImages }
    \cup { [kind |-> "bigWig",
            images |-> (0 :> h) @@ (EmbeddedAt :> HdrImage(3, 0, so, 0))] :
             h \in HdrImages, so \in {0, EmbeddedSummaryAt} }

SeekTargets == {0, MagicSize, HdrSize, EmbeddedAt, FileLen}

InitHdr ==
    /\ cl = [NKeys |-> 0, Chrom |-> <<>>]
    /\ rtree = <<>>
    /\ nodeOK = {}
    /\ blocks = <<>>
    /\ cache = {}
    /\ q = [reads |-> 0, seeked |-> FALSE, first |-> NilHdr]
    /\ res = NoResult
    /\ io = <<>>
    /\ iter = NilIter
    /\ acc = NoBatches
    /\ file \in HdrFiles
    /\ url = Open(<<"x">>, TRUE, FileLen)
    /\ hdr = NilHdr

HdrUnchanged == <<cl, rtree, nodeOK, blocks, cache, io, iter, acc, file>>

\* bwHdrRead(fp); q.first keeps the header of the first read.
HdrRead ==
    /\ q.reads < MaxReads
    /\ hdr' = bwHdrRead(file, url).hdr
    /\ url' = bwHdrRead(file, url).u
    /\ res' = [op |-> "hdrRead", ok |-> ~bwHdrRead(file, url).err,
               afterSeek |-> q.seeked]
    /\ q' = [reads |-> q.reads + 1, seeked |-> FALSE,
             first |-> IF q.reads = 0 THEN bwHdrRead(file, url).hdr ELSE q.first]
    /\ UNCHANGED HdrUnchanged

\* A seek on the handle of a file whose header has been read.
HdrSeek ==
    /\ q.reads > 0
    /\ q.reads < MaxReads
    /\ \E p \in SeekTargets :
          /\ url' = bwSetPos(url, p).u
          /\ res' = [op |-> "seek", pos |-> p]
    /\ q' = [q EXCEPT !.seeked = TRUE]
    /\ UNCHANGED <<hdr, HdrUnchanged>>

NextHdr == HdrRead \/ HdrSeek

SpecHdr == InitHdr /\ [][NextHdr]_vars

\* C7: reading the header again after a seek on the handle succeeds and
\* gives the header of the first read.
C7_HeaderRoundTrip ==
    (res.op = "hdrRead" /\ q.reads >= 2 /\ res.afterSeek) =>
        (res.ok /\ hdr = q.first)

\* ------------------------------------------------------------ zoom engine
\* A float value is the exact rational n/d (n >= 0, d > 0, lowest terms), NaN
\* or an infinity.  uint32(x) of a non-negative x is its integer part.

NaN == [k |-> "nan", n |-> 0, d |-> 1]
PosInf == [k |-> "+inf", n |-> 0, d |-> 1]
NegInf == [k |-> "-inf", n |-> 0, d |-> 1]

RECURSIVE Gcd(_, _)
Gcd(a, b) == IF b = 0 THEN a ELSE Gcd(b, a % b)

Num(n, d) == [k |-> "num", n |-> n \div Gcd(n, d), d |-> d \div Gcd(n, d)]

\* a + b, a / c for a count c, and the comparisons a > b and a < b of a
\* number a with the running maximum or minimum b.
AddNum(a, b) == Num(a.n * b.d + b.n * a.d, a.d * b.d)
Quot(a, c) == IF c = 0 THEN (IF a.n = 0 THEN NaN ELSE PosInf) ELSE Num(a.n, a.d * c)
Greater(a, b) == b.k = "-inf" \/ (b.k = "num" /\ a.n * b.d > b.n * a.d)
Less(a, b) == b.k = "+inf" \/ (b.k = "num" /\ a.n * b.d < b.n * a.d)

max32(a, b) == IF a > b THEN a ELSE b
min32(a, b) == IF a < b THEN a ELSE b

\* The accumulators of one bin before the first record.
EmptyBin ==
    [validCount |-> 0, sumData |-> Num(0, 1), minVal |-> PosInf, maxVal |-> NegInf,
     overlapCount |-> 0]

\* start + uint32(float64(i) * binSize) with binSize = (end - start) / numBins
BinEdge(start, end, numBins, i) == start + ((i * (end - start)) \div numBins)

\* ZoomAddOverlap with the whole validCount of the record added to the bin.
ZoomAddOverlapUnweighted(sum, overlap, b) ==
    IF overlap = 0 THEN b
    ELSE [validCount |-> b.validCount + sum.ValidCount,
          sumData |-> AddNum(b.sumData, Num(sum.SumData * overlap, sum.End - sum.Start)),
          maxVal |-> IF Greater(Num(sum.MaxVal, 1), b.maxVal) THEN Num(sum.MaxVal, 1) ELSE b.maxVal,
          minVal |-> IF Less(Num(sum.MinVal, 1), b.minVal) THEN Num(sum.MinVal, 1) ELSE b.minVal,
          overlapCount |-> b.overlapCount + 1]

\* One summary record that overlaps the bin by overlap bases is added to the
\* accumulators: validCount += uint32(ValidCount * overlapFactor), sumData +=
\* SumData * overlapFactor, overlapFactor = overlap / (End - Start).
ZoomAddOverlap(sum, overlap, b) ==
    IF overlap = 0 THEN b
    ELSE [validCount |-> b.validCount + ((sum.ValidCount * overlap) \div (sum.End - sum.Start)),
          sumData |-> AddNum(b.sumData, Num(sum.SumData * overlap, sum.End - sum.Start)),
          maxVal |-> IF Greater(Num(sum.MaxVal, 1), b.maxVal) THEN Num(sum.MaxVal, 1) ELSE b.maxVal,
          minVal |-> IF Less(Num(sum.MinVal, 1), b.minVal) THEN Num(sum.MinVal, 1) ELSE b.minVal,
          overlapCount |-> b.overlapCount + 1]

ZoomAdd(sum, binStart, binEnd, b) ==
    IF sum.End <= binStart \/ sum.Start >= binEnd THEN b
    ELSE ZoomAddOverlap(sum, min32(sum.End, binEnd) - max32(sum.Start, binStart), b)

\* The loop over the summaries for one bin, from record j on.
RECURSIVE ZoomBinFrom(_, _, _, _, _)
ZoomBinFrom(summaries, binStart, binEnd, j, b) ==
    IF j > Len(summaries) THEN b
    ELSE ZoomBinFrom(summaries, binStart, binEnd, j + 1,
                     ZoomAdd(summaries[j], binStart, binEnd, b))

\* The accumulators of bin i (from 0).
ZoomBin(summaries, start, end, numBins, i) ==
    ZoomBinFrom(summaries, BinEdge(start, end, numBins, i),
                BinEdge(start, end, numBins, i + 1), 1, EmptyBin)

\* The switch on summaryType, for a bin that has validCount > 0.
\* Aggregate answering sumData for the maximum.
AggregateMaxFromSum(summaryType, b, numBins, start, end) ==
    IF summaryType \in {"mean", "average"} THEN Quot(b.sumData, b.validCount)
    ELSE IF summaryType \in {"max", "maximum"} THEN b.sumData
    ELSE IF summaryType \in {"min", "minimum"} THEN b.minVal
    ELSE IF summaryType = "coverage" THEN Num(numBins * b.validCount, end - start)
    ELSE IF summaryType = "sum" THEN b.sumData
    ELSE Quot(b.sumData, b.validCount)

Aggregate(summaryType, b, numBins, start, end) ==
    IF summaryType \in {"mean", "average"} THEN Quot(b.sumData, b.validCount)
    ELSE IF summaryType \in {"max", "maximum"} THEN b.maxVal
    ELSE IF summaryType \in {"min", "minimum"} THEN b.minVal
    ELSE IF summaryType = "coverage" THEN Num(numBins * b.validCount, end - start)
    ELSE IF summaryType = "sum" THEN b.sumData
    ELSE Quot(b.sumData, b.validCount)

\* BinValue filling every bin that a record overlaps.
BinValueOnOverlap(summaryType, b, numBins, start, end) ==
    IF b.overlapCount > 0 THEN Aggregate(summaryType, b, numBins, start, end) ELSE NaN

\* The value of a bin: NaN unless validCount > 0.
BinValue(summaryType, b, numBins, start, end) ==
    IF b.validCount > 0 THEN Aggregate(summaryType, b, numBins, start, end) ELSE NaN

\* The filter of bwGetSummariesInRegion on the records of the query's
\* chromosome, from record j on.
RECURSIVE SummariesFrom(_, _, _, _)
SummariesFrom(level, start, end, j) ==
    IF j > Len(level) THEN <<>>
    ELSE (IF level[j].Start < end /\ level[j].End > start THEN <<level[j]>> ELSE <<>>)
         \o SummariesFrom(level, start, end, j + 1)

\* bwGetSummariesInRegion: the records of the level that overlap the query;
\* ok tells whether the index and the blocks of the level could be read.
bwGetSummariesInRegion(level, ok, start, end) ==
    IF ok THEN [err |-> FALSE, summaries |-> SummariesFrom(level, start, end, 1)]
    ELSE [err |-> TRUE, summaries |-> <<>>]

\* bwGetValuesFromZoom after bwGetSummariesInRegion returned s.  bins are the
\* accumulators the loop ends with (none when the loop is not entered).
ZoomValues(s, start, end, numBins, summaryType) ==
    IF s.err THEN [err |-> TRUE, values |-> <<>>, bins |-> <<>>]
    ELSE IF Len(s.summaries) = 0
    THEN [err |-> FALSE, values |-> [i \in 1..numBins |-> NaN], bins |-> <<>>]
    ELSE [err |-> FALSE,
          values |-> [i \in 1..numBins |->
                        BinValue(summaryType,
                                 ZoomBin(s.summaries, start, end, numBins, i - 1),
                                 numBins, start, end)],
          bins |-> [i \in 1..numBins |-> ZoomBin(s.summaries, start, end, numBins, i - 1)]]

bwGetValuesFromZoom(level, ok, start, end, numBins, summaryType) ==
    ZoomValues(bwGetSummariesInRegion(level, ok, start, end), start, end, numBins, summaryType)

\* One interval that overlaps the bin by overlap bases is added to the
\* accumulators of bwGetValuesFromRaw: count += overlap, sumData += value * overlap.
RawAddOverlap(iv, overlap, b) ==
    IF overlap > 0
    THEN [validCount |-> b.validCount + overlap,
          sumData |-> AddNum(b.sumData, Num(iv.Value * overlap, 1)),
          maxVal |-> IF Greater(Num(iv.Value, 1), b.maxVal) THEN Num(iv.Value, 1) ELSE b.maxVal,
          minVal |-> IF Less(Num(iv.Value, 1), b.minVal) THEN Num(iv.Value, 1) ELSE b.minVal,
          overlapCount |-> b.overlapCount + 1]
    ELSE b

RawAdd(iv, binStart, binEnd, b) ==
    IF iv.End <= binStart \/ iv.Start >= binEnd THEN b
    ELSE RawAddOverlap(iv, min32(iv.End, binEnd) - max32(iv.Start, binStart), b)

RECURSIVE RawBinFrom(_, _, _, _, _)
RawBinFrom(intervals, binStart, binEnd, j, b) ==
    IF j > Len(intervals) THEN b
    ELSE RawBinFrom(intervals, binStart, binEnd, j + 1,
                    RawAdd(intervals[j], binStart, binEnd, b))

RawBin(intervals, start, end, numBins, i) ==
    RawBinFrom(intervals, BinEdge(start, end, numBins, i),
               BinEdge(start, end, numBins, i + 1), 1, EmptyBin)

\* The intervals bwGetOverlappingIntervals returns for the query: those that
\* overlap it, unclamped, or nil (ok = FALSE).
RECURSIVE IntervalsFrom(_, _, _, _)
IntervalsFrom(raw, start, end, j) ==
    IF j > Len(raw) THEN <<>>
    ELSE (IF raw[j].Start < end /\ raw[j].End > start THEN <<raw[j]>> ELSE <<>>)
         \o IntervalsFrom(raw, start, end, j + 1)

\* bwGetValuesFromRaw: nil or empty intervals give NaN in every bin.
RawValues(intervals, ok, start, end, numBins, summaryType) ==
    IF ~ok \/ Len(intervals) = 0
    THEN [err |-> FALSE, values |-> [i \in 1..numBins |-> NaN], bins |-> <<>>]
    ELSE [err |-> FALSE,
          values |-> [i \in 1..numBins |->
                        BinValue(summaryType,
                                 RawBin(intervals, start, end, numBins, i - 1),
                                 numBins, start, end)],
          bins |-> [i \in 1..numBins |-> RawBin(intervals, start, end, numBins, i - 1)]]

bwGetValuesFromRaw(raw, ok, start, end, numBins, summaryType) ==
    RawValues(IntervalsFrom(raw, start, end, 1), ok, start, end, numBins, summaryType)

\* --------------------------------------- specification of the zoom engine
\* One chromosome whose level-0 data are unit intervals on the bases
\* 0..ZoomLen-1 (value 0: the base has no value), and one zoom level whose
\* records summarise the windows of Reduction bases; or the two-record file
\* of the specification's examples.  file.raw are the level-0 intervals,
\* file.level the summary records of the level.

ZoomLen == 3     \* bases of the chromosome
MaxBins == 2     \* largest numBins of a generated query
Reduction == 2   \* bases per summary record

\* What a base holds: no value (0) or one of two values.
BaseValues == {0, 1, 2}

RECURSIVE RawOf(_, _)
RawOf(f, b) ==
    IF b >= ZoomLen THEN <<>>
    ELSE (IF f[b] = 0 THEN <<>> ELSE <<[Start |-> b, End |-> b + 1, Value |-> f[b]]>>)
         \o RawOf(f, b + 1)

\* The summary record of the window [lo, hi), from the accumulators of the
\* level-0 intervals in it.
SummaryOf(lo, hi, b) ==
    [Start |-> lo, End |-> hi, ValidCount |-> b.validCount,
     MinVal |-> b.minVal.n, MaxVal |-> b.maxVal.n, SumData |-> b.sumData.n]

\* The records of the windows from window k on; a window without a value
\* has no record.
RECURSIVE LevelOf(_, _)
LevelOf(raw, k) ==
    IF k * Reduction >= ZoomLen THEN <<>>
    ELSE (IF RawBinFrom(raw, k * Reduction, min32((k + 1) * Reduction, ZoomLen),
                        1, EmptyBin).validCount = 0
          THEN <<>>
          ELSE <<SummaryOf(k * Reduction, min32((k + 1) * Reduction, ZoomLen),
                           RawBinFrom(raw, k * Reduction,
                                      min32((k + 1) * Reduction, ZoomLen), 1, EmptyBin))>>)
         \o LevelOf(raw, k + 1)

ZoomFiles ==
    { [kind |-> "zoom", raw |-> RawOf(f, 0), level |-> LevelOf(RawOf(f, 0), 0)] :
        f \in [0..(ZoomLen - 1) -> BaseValues] }

ZoomQueries ==
    { [start |-> s, end |-> e, numBins |-> n] :
        s \in 0..ZoomLen, e \in 1..(ZoomLen + 1), n \in 1..MaxBins }

\* The file and the queries of the examples.
ExampleFile ==
    [kind |-> "zoom",
     raw |-> <<[Start |-> 0, End |-> 100, Value |-> 1],
               [Start |-> 100, End |-> 200, Value |-> 2]>>,
     level |-> <<[Start |-> 0, End |-> 100, ValidCount |-> 100,
                  MinVal |-> 1, MaxVal |-> 1, SumData |-> 100],
                 [Start |-> 100, End |-> 200, ValidCount |-> 100,
                  MinVal |-> 2, MaxVal |-> 2, SumData |-> 200]>>]

ExampleQueries ==
    { [start |-> 0, end |-> 200, numBins |-> 2],
      [start |-> 0, end |-> 200, numBins |-> 1],
      [start |-> 0, end |-> 400, numBins |-> 4] }

SummaryTypes == {"mean", "max", "min", "coverage", "sum"}

InitZoom ==
    /\ cl = [NKeys |-> 0, Chrom |-> <<>>]
    /\ rtree = <<>>
    /\ nodeOK = {}
    /\ blocks = <<>>
    /\ cache = {}
    /\ \/ file \in ZoomFiles /\ q \in ZoomQueries /\ q.start < q.end
       \/ file = ExampleFile /\ q \in ExampleQueries
    /\ res = NoResult
    /\ io = <<>>
    /\ iter = NilIter
    /\ acc = NoBatches
    /\ url = NoUrl
    /\ hdr = NilHdr

ZoomUnchanged == <<cl, rtree, nodeOK, blocks, cache, q, io, iter, acc, file, url, hdr>>

\* bwGetValuesFromZoom(fp, zoomIdx, chrom, start, end, numBins, summaryType)
ValuesFromZoom ==
    /\ \E summaryType \in SummaryTypes, ok \in BOOLEAN :
          res' = [op |-> "zoom", summaryType |-> summaryType, ok |-> ok,
                  out |-> bwGetValuesFromZoom(file.level, ok, q.start, q.end,
                                              q.numBins, summaryType)]
    /\ UNCHANGED ZoomUnchanged

\* bwGetValuesFromRaw(fp, chrom, start, end, numBins, summaryType)
ValuesFromRaw ==
    /\ \E summaryType \in SummaryTypes, ok \in BOOLEAN :
          res' = [op |-> "raw", summaryType |-> summaryType, ok |-> ok,
                  out |-> bwGetValuesFromRaw(file.raw, ok, q.start, q.end,
                                             q.numBins, summaryType)]
    /\ UNCHANGED ZoomUnchanged

NextZoom == ValuesFromZoom \/ ValuesFromRaw

SpecZoom == InitZoom /\ [][NextZoom]_vars

\* The last operation rebinned without an error.
Rebinned == res.op \in {"zoom", "raw"} /\ ~res.out.err
ZoomRebinned == res.op = "zoom" /\ ~res.out.err

\* The validCount the operation accumulated for bin i (from 1): 0 when the
\* loop over the bins was not entered.
AccumulatedCount(i) == IF res.out.bins = <<>> THEN 0 ELSE res.out.bins[i].validCount

\* The final bin value of the specification's table for accumulators b.
TableValue(summaryType, b) ==
    CASE summaryType = "mean" -> Quot(b.sumData, b.validCount)
      [] summaryType = "max" -> b.maxVal
      [] summaryType = "min" -> b.minVal
      [] summaryType = "sum" -> b.sumData
      [] summaryType = "coverage" -> Num(b.validCount * q.numBins, q.end - q.start)

\* C11: the returned array has numBins values; the value of a bin is NaN iff
\* the validCount accumulated for the bin is 0, and a bin with validCount > 0
\* holds the aggregate of the requested type.
C11_NaNIffNoValidCount ==
    Rebinned =>
        /\ Len(res.out.values) = q.numBins
        /\ \A i \in 1..q.numBins :
              /\ (res.out.values[i] = NaN) <=> (AccumulatedCount(i) = 0)
              /\ AccumulatedCount(i) > 0 =>
                     res.out.values[i] = TableValue(res.summaryType, res.out.bins[i])

\* A zoom result with a bin that a record overlaps without adding to its
\* validCount (NaN) next to a bin that holds a value.
C11_OverlappedBinWithoutCount ==
    /\ ZoomRebinned
    /\ res.out.bins # <<>>
    /\ \E i \in 1..q.numBins :
          /\ res.out.bins[i].overlapCount > 0
          /\ res.out.bins[i].validCount = 0
          /\ res.out.values[i] = NaN
    /\ \E i \in 1..q.numBins : res.out.values[i] # NaN

\* The bin i (from 1) of the query, as the specification defines it.
BinLo(i) == q.start + (((i - 1) * (q.end - q.start)) \div q.numBins)
BinHi(i) == q.start + ((i * (q.end - q.start)) \div q.numBins)

\* The bases a record shares with [lo, hi).
OverlapOf(r, lo, hi) ==
    IF r.End <= lo \/ r.Start >= hi THEN 0
    ELSE (IF r.End < hi THEN r.End ELSE hi) - (IF r.Start > lo THEN r.Start ELSE lo)

\* The sums of floor(r.validCount * f) and of r.sumData * f over the records
\* of the level from record j on, f = overlap / (r.end - r.start).
RECURSIVE WeightedCount(_, _, _)
WeightedCount(lo, hi, j) ==
    IF j > Len(file.level) THEN 0
    ELSE (IF OverlapOf(file.level[j], lo, hi) = 0 THEN 0
          ELSE (file.level[j].ValidCount * OverlapOf(file.level[j], lo, hi))
                   \div (file.level[j].End - file.level[j].Start))
         + WeightedCount(lo, hi, j + 1)

RECURSIVE WeightedSum(_, _, _)
WeightedSum(lo, hi, j) ==
    IF j > Len(file.level) THEN Num(0, 1)
    ELSE AddNum(IF OverlapOf(file.level[j], lo, hi) = 0 THEN Num(0, 1)
                ELSE Num(file.level[j].SumData * OverlapOf(file.level[j], lo, hi),
                         file.level[j].End - file.level[j].Start),
                WeightedSum(lo, hi, j + 1))

\* The means of the examples: [1.0, 2.0], [1.5] and [1.0, 2.0, NaN, NaN].
ExampleMeans ==
    IF q.numBins = 2 THEN <<Num(1, 1), Num(2, 1)>>
    ELSE IF q.numBins = 1 THEN <<Num(3, 2)>>
    ELSE <<Num(1, 1), Num(2, 1), NaN, NaN>>

\* C14: for each bin validCount is the sum of floor(r.validCount * f) and
\* sumData the sum of r.sumData * f over the records that overlap the bin,
\* the mean is sumData / validCount (NaN without validCount), and the
\* examples give [1.0, 2.0], [1.5] and [1.0, 2.0, NaN, NaN].
C14_WeightedRebinning ==
    ZoomRebinned =>
        /\ \A i \in 1..q.numBins :
              /\ res.out.bins # <<>> =>
                     /\ res.out.bins[i].validCount = WeightedCount(BinLo(i), BinHi(i), 1)
                     /\ res.out.bins[i].sumData = WeightedSum(BinLo(i), BinHi(i), 1)
              /\ res.summaryType = "mean" =>
                     res.out.values[i] =
                         IF WeightedCount(BinLo(i), BinHi(i), 1) > 0
                         THEN Quot(WeightedSum(BinLo(i), BinHi(i), 1),
                                   WeightedCount(BinLo(i), BinHi(i), 1))
                         ELSE NaN
        /\ (file = ExampleFile /\ res.summaryType = "mean") =>
               res.out.values = ExampleMeans

\* The mean of the example query 0-400 with 4 bins has been computed.
C14_ExampleWithGap ==
    /\ ZoomRebinned
    /\ file = ExampleFile
    /\ q.numBins = 4
    /\ res.summaryType = "mean"
    /\ res.out.values = <<Num(1, 1), Num(2, 1), NaN, NaN>>

\* The level-0 values of the bases inside [lo, hi).
RawValuesIn(lo, hi) ==
    { file.raw[j].Value :
        j \in {k \in 1..Len(file.raw) : file.raw[k].Start < hi /\ file.raw[k].End > lo} }

\* The level-0 values of the bases inside the records that overlap [lo, hi).
CoveredValues(lo, hi) ==
    UNION { RawValuesIn(file.level[j].Start, file.level[j].End) :
              j \in {k \in 1..Len(file.level) : OverlapOf(file.level[k], lo, hi) > 0} }

\* v lies between the least and the largest value of S.
Within(v, S) ==
    /\ v.k = "num"
    /\ \E a \in S : a * v.d <= v.n
    /\ \E b \in S : v.n <= b * v.d

\* C12: for max and min every non-NaN bin value of zoom rebinning lies
\* between the raw minimum and the raw maximum over the bases inside the bin.
C12_ExtremaWithinRawRangeOfBin ==
    (ZoomRebinned /\ res.summaryType \in {"max", "min"}) =>
        \A i \in 1..q.numBins :
            res.out.values[i] # NaN =>
                Within(res.out.values[i], RawValuesIn(BinLo(i), BinHi(i)))

\* C12, amended: for max and min every non-NaN bin value of zoom rebinning
\* lies between the raw minimum and the raw maximum over the bases inside the
\* zoom records that overlap the bin.
C12_ExtremaWithinRawRangeOfRecords ==
    (ZoomRebinned /\ res.summaryType \in {"max", "min"}) =>
        \A i \in 1..q.numBins :
            res.out.values[i] # NaN =>
                Within(res.out.values[i], CoveredValues(BinLo(i), BinHi(i)))

\* A maximum above the raw maximum of its bin, from a record that extends
\* beyond the bin.
C12_MaximumFromBeyondTheBin ==
    /\ ZoomRebinned
    /\ res.summaryType = "max"
    /\ \E i \in 1..q.numBins :
          /\ res.out.values[i] # NaN
          /\ RawValuesIn(BinLo(i), BinHi(i)) # {}
          /\ \A a \in RawValuesIn(BinLo(i), BinHi(i)) : Num(a, 1) # res.out.values[i]
          /\ Within(res.out.values[i], CoveredValues(BinLo(i), BinHi(i)))

\* The records of the level tile the query: those that overlap it lie inside
\* it and cover every base of it.
RECURSIVE BasesCovered(_)
BasesCovered(j) ==
    IF j > Len(file.level) THEN 0
    ELSE OverlapOf(file.level[j], q.start, q.end) + BasesCovered(j + 1)

TilesQuery ==
    /\ \A j \in 1..Len(file.level) :
          OverlapOf(file.level[j], q.start, q.end) > 0 =>
              (file.level[j].Start >= q.start /\ file.level[j].End <= q.end)
    /\ BasesCovered(1) = q.end - q.start

\* The total of sumData over the records inside the query.
RECURSIVE TotalSumData(_)
TotalSumData(j) ==
    IF j > Len(file.level) THEN 0
    ELSE (IF OverlapOf(file.level[j], q.start, q.end) > 0 THEN file.level[j].SumData ELSE 0)
         + TotalSumData(j + 1)

\* The float sum of the values from index i on: NaN as soon as one is NaN.
RECURSIVE SumOfValues(_, _)
SumOfValues(values, i) ==
    IF i > Len(values) THEN Num(0, 1)
    ELSE IF values[i].k # "num" \/ SumOfValues(values, i + 1).k # "num" THEN NaN
    ELSE AddNum(values[i], SumOfValues(values, i + 1))

\* C13: for sum, when the records of the level tile the query, the sum of the
\* returned values over all bins is the total of the records' sumData.
C13_SumConservation ==
    (ZoomRebinned /\ res.summaryType = "sum" /\ TilesQuery) =>
        SumOfValues(res.out.values, 1) = Num(TotalSumData(1), 1)

\* The sums add up when every bin has accumulated a validCount.
C13_SumConservationOfCountedBins ==
    (ZoomRebinned /\ res.summaryType = "sum" /\ TilesQuery
        /\ \A i \in 1..q.numBins : AccumulatedCount(i) > 0) =>
        SumOfValues(res.out.values, 1) = Num(TotalSumData(1), 1)
\* ------------------------------------------------- lazily loaded indexes

MaxZoomLevels == 2   \* zoom levels of a generated file
MaxLoads == 2        \* loads of one node or index that are counted

\* The nodes of a handle's file: the main tree lies at the node offsets 1..3
\* and the tree of zoom level i at 3i+1..3i+3.  Each tree is a branch over
\* two leaves, the left one for the bases [0, 4) and the right one for [4, 7)
\* of chromosome 0; the block of a leaf lies at the leaf's own offset.
HalfKid(off, bs, be) ==
    [ChrIdxStart |-> 0, BaseStart |-> bs, ChrIdxEnd |-> 0, BaseEnd |-> be,
     DataOffset |-> off, Size |-> 1]

LazyNode(off) ==
    IF off % 3 = 1
    THEN [IsLeaf |-> FALSE, NChildren |-> 2,
          kids |-> <<HalfKid(off + 1, 0, 4), HalfKid(off + 2, 4, 7)>>]
    ELSE IF off % 3 = 2
    THEN [IsLeaf |-> TRUE, NChildren |-> 1, kids |-> <<HalfKid(off, 0, 4)>>]
    ELSE [IsLeaf |-> TRUE, NChildren |-> 1, kids |-> <<HalfKid(off, 4, 7)>>]

Summary(tid, start, end, v) ==
    [ChromId |-> tid, Start |-> start, End |-> end, ValidCount |-> end - start,
     MinVal |-> v, MaxVal |-> v, SumData |-> v * (end - start)]

\* The block at offset off: a bedGraph block of the main tree, or a block of
\* zoom records with one record of another chromosome.
LazyBlock(off) ==
    IF off = 2 THEN Block("none", 0, 0, 0, 0, 1, 2, <<Rec(0, 2, 1), Rec(2, 4, 2)>>)
    ELSE IF off = 3 THEN Block("none", 0, 4, 0, 0, 1, 1, <<Rec(4, 7, 3)>>)
    ELSE IF off % 3 = 2
    THEN [fault |-> "none", sums |-> <<Summary(0, 0, 4, 1), Summary(1, 0, 4, 5)>>]
    ELSE [fault |-> "none", sums |-> <<Summary(0, 4, 7, 3)>>]

\* A nil *bwRTree_t, and a tree whose root holds the Child slots in cache.
NilTree == [nil |-> TRUE, cache |-> {}]

\* bwReadZoomIndex: the index header at indexOffset, then the root node.
bwReadZoomIndex(indexOffset) ==
    IF indexOffset = 0 \/ ~NodeReadable(indexOffset) THEN NilTree
    ELSE [nil |-> FALSE, cache |-> {}]

\* The walk state of a query on the tree t; loaded tells that this query read
\* the index and its root.
TreeStart(t, indexOffset, loaded) ==
    [out |-> EmptyBlocks, cache |-> t.cache,
     io |-> IF loaded THEN << <<"node", indexOffset>> >> ELSE <<>>,
     visited |-> <<>>]

\* The zoom records of one block that pass the filter of the record loop.
SummariesOfBlock(sums, tid, start, end) ==
    SummariesFrom(SelectSeq(sums, LAMBDA s : s.ChromId = tid), start, end, 1)

\* The block loop of bwGetSummariesInRegion from block i on.
RECURSIVE SummaryBlocksFrom(_, _, _, _, _)

SummaryBlocksAfter(found, rest) ==
    IF rest.err THEN rest
    ELSE [err |-> FALSE, summaries |-> found \o rest.summaries]

SummaryBlocksFrom(o, i, tid, start, end) ==
    IF i > o.N THEN [err |-> FALSE, summaries |-> <<>>]
    ELSE IF BlockFails(o.Offset[i]) THEN [err |-> TRUE, summaries |-> <<>>]
    ELSE SummaryBlocksAfter(
             SummariesOfBlock(blocks[o.Offset[i]].sums, tid, start, end),
             SummaryBlocksFrom(o, i + 1, tid, start, end))

\* bwGetSummariesInRegion after the walk: a nil block list and an empty one
\* both return no summaries and no error.
SummariesOfWalk(blks, tid, start, end) ==
    IF blks.nil \/ blks.N = 0 THEN [err |-> FALSE, summaries |-> <<>>]
    ELSE SummaryBlocksFrom(blks, 1, tid, start, end)

\* The outcome of the query whose walk ended in w and decoded to s: the tree
\* with the Child slots of the walk is the Idx slot of the level.
SummariesOfTree(zh, zoomIdx, w, s) ==
    [err |-> s.err, summaries |-> s.summaries,
     Idx |-> [zh.Idx EXCEPT ![zoomIdx] = [nil |-> FALSE, cache |-> w.cache]],
     io |-> w.io]

SummariesOfIndex(zh, zoomIdx, tid, start, end, w) ==
    SummariesOfTree(zh, zoomIdx, w, SummariesOfWalk(w.out, tid, start, end))

\* The tree t of the level is walked; a nil tree is a failed index read.
SummariesOfLevel(zh, zoomIdx, tid, start, end, t) ==
    IF t.nil
    THEN [err |-> TRUE, summaries |-> <<>>, Idx |-> zh.Idx, io |-> <<>>]
    ELSE SummariesOfIndex(zh, zoomIdx, tid, start, end,
             walkRTreeNodes(rtree[zh.IndexOffset[zoomIdx]], tid, start, end,
                            TreeStart(t, zh.IndexOffset[zoomIdx],
                                      zh.Idx[zoomIdx].nil)))

SummariesOfTid(zh, zoomIdx, tid, start, end) ==
    IF tid = TidNone
    THEN [err |-> TRUE, summaries |-> <<>>, Idx |-> zh.Idx, io |-> <<>>]
    ELSE SummariesOfLevel(zh, zoomIdx, tid, start, end,
             IF zh.Idx[zoomIdx].nil THEN bwReadZoomIndex(zh.IndexOffset[zoomIdx])
             ELSE zh.Idx[zoomIdx])

\* bwGetSummariesInRegion(fp, zoomIdx, chrom, start, end) on the zoom header
\* zh of the handle; zoomIdx counts from 0.
SummariesInRegionOfHandle(zh, zoomIdx, chrom, start, end) ==
    IF zh.nil \/ zoomIdx < 0 \/ zoomIdx >= Len(zh.Level)
    THEN [err |-> TRUE, summaries |-> <<>>, Idx |-> zh.Idx, io |-> <<>>]
    ELSE SummariesOfTid(zh, zoomIdx + 1, bwGetTid(chrom), start, end)

LazyRanges == {<<0, 2>>, <<4, 7>>, <<0, 7>>}

LazyOffsets(n) == 1..(3 * (n + 1))

\* pre is the state of the caches before the query, for the claims.
NoLoads(n) == [nodes |-> [off \in LazyOffsets(n) |-> 0], idx |-> [i \in 1..n |-> 0]]

InitLazy ==
    /\ cl = [NKeys |-> 2, Chrom |-> <<Chr1, Chr2>>]
    /\ \E n \in 1..MaxZoomLevels :
          /\ rtree = [off \in LazyOffsets(n) |-> LazyNode(off)]
          /\ blocks = [off \in LazyOffsets(n) |-> LazyBlock(off)]
          /\ \/ nodeOK = LazyOffsets(n)
             \/ \E bad \in LazyOffsets(n) \ {RootOffset} : nodeOK = LazyOffsets(n) \ {bad}
          /\ hdr = [nil |-> FALSE, Level |-> [i \in 1..n |-> 2 * i],
                    IndexOffset |-> [i \in 1..n |-> 3 * i + 1],
                    Idx |-> [i \in 1..n |-> NilTree]]
          /\ acc = NoLoads(n)
    /\ cache = {}
    /\ q = [chrom |-> Chr1, start |-> 0, end |-> 0, k |-> 1]
    /\ res = NoResult
    /\ io = <<>>
    /\ iter = NilIter
    /\ file = NoFile
    /\ url = NoUrl

\* The successful reads of the node at off among the reads of one query.
Loads(reads, off) ==
    IF NodeReadable(off)
    THEN Cardinality({k \in DOMAIN reads : reads[k] = <<"node", off>>})
    ELSE 0

\* A read of a child node failed during the query.
NodeLoadFailed(reads) ==
    \E k \in DOMAIN reads : reads[k][1] = "node" /\ ~NodeReadable(reads[k][2])

Counted(reads, idx) ==
    [nodes |-> [off \in DOMAIN acc.nodes |-> acc.nodes[off] + Loads(reads, off)],
     idx |-> idx]

LazyEnabled ==
    /\ \A off \in DOMAIN acc.nodes : acc.nodes[off] < MaxLoads
    /\ \A i \in DOMAIN acc.idx : acc.idx[i] < MaxLoads

LazyOutcome(op, level, err, n, reads) ==
    [op |-> op, level |-> level, err |-> err, n |-> n,
     failed |-> NodeLoadFailed(reads), cache |-> cache, Idx |-> hdr.Idx]

\* bwGetOverlappingIntervals(fp, chrom, start, end)
LazyIntervalsOf(r) ==
    /\ res' = LazyOutcome("intervals", 0, r.out.nil, r.out.L, r.io)
    /\ cache' = r.cache
    /\ io' = r.io
    /\ acc' = Counted(r.io, acc.idx)
    /\ UNCHANGED <<iter, hdr>>

\* bwOverlappingIntervalsIterator(fp, chrom, start, end, 1): an iterator
\* without a first batch is the report of a failure.
LazyIteratorOf(r) ==
    /\ res' = LazyOutcome("iterNew", 0, r.out.nil \/ r.out.Intervals.nil,
                          r.out.Intervals.L, r.io)
    /\ iter' = r.out
    /\ cache' = r.cache
    /\ io' = r.io
    /\ acc' = Counted(r.io, acc.idx)
    /\ UNCHANGED hdr

\* bwGetSummariesInRegion(fp, level - 1, chrom, start, end)
LazySummariesOf(level, r) ==
    /\ res' = LazyOutcome("summaries", level, r.err, Len(r.summaries), r.io)
    /\ hdr' = [hdr EXCEPT !.Idx = r.Idx]
    /\ io' = r.io
    /\ acc' = Counted(r.io, [acc.idx EXCEPT ![level] =
                                 IF hdr.Idx[level].nil /\ ~r.Idx[level].nil
                                 THEN @ + 1 ELSE @])
    /\ UNCHANGED <<cache, iter>>

LazyIntervals ==
    /\ LazyEnabled
    /\ \E r \in LazyRanges :
          /\ q' = [q EXCEPT !.start = r[1], !.end = r[2]]
          /\ LazyIntervalsOf(bwGetOverlappingIntervals(Chr1, r[1], r[2], WalkStart))
    /\ UNCHANGED <<cl, rtree, nodeOK, blocks, file, url>>

LazyIterator ==
    /\ LazyEnabled
    /\ \E r \in LazyRanges :
          /\ q' = [q EXCEPT !.start = r[1], !.end = r[2]]
          /\ LazyIteratorOf(bwOverlappingIntervalsIterator(Chr1, r[1], r[2], 1, WalkStart))
    /\ UNCHANGED <<cl, rtree, nodeOK, blocks, file, url>>

LazySummaries ==
    /\ LazyEnabled
    /\ \E r \in LazyRanges, level \in DOMAIN hdr.Level :
          /\ q' = [q EXCEPT !.start = r[1], !.end = r[2]]
          /\ LazySummariesOf(level, SummariesInRegionOfHandle(hdr, level - 1, Chr1,
                                                              r[1], r[2]))
    /\ UNCHANGED <<cl, rtree, nodeOK, blocks, file, url>>

NextLazy == LazyIntervals \/ LazyIterator \/ LazySummaries

SpecLazy == InitLazy /\ [][NextLazy]_vars

\* C21: when the load of a child node fails during the walk of a query, the
\* query reports an error: the raw interval query, the iterator and the zoom
\* summary query alike.
C21_NodeFailureAbortsQuery ==
    (res.op \in {"intervals", "iterNew", "summaries"} /\ res.failed) => res.err
\* The Child slots a query set in the tree rooted at root: before, after.
SlotsAccepted(root, before, after) ==
    \A p \in after \ before :
        AcceptPredicate(rtree[root].kids[p[1]], bwGetTid(q.chrom), q.start, q.end)

\* C26: over any sequence of queries on one handle every R-tree node and
\* every zoom index is read at most once, a Child slot or zoomIdx slot that
\* is set stays set, a child the predicate rejects is not loaded, and a
\* query on one zoom level leaves the slots of the other levels unchanged.
C26_LazyCaches ==
    /\ \A off \in DOMAIN acc.nodes : acc.nodes[off] <= 1
    /\ \A i \in DOMAIN acc.idx : acc.idx[i] <= 1
    /\ res.op # "none" =>
          /\ res.cache \subseteq cache
          /\ SlotsAccepted(RootOffset, res.cache, cache)
          /\ res.op = "summaries" => cache = res.cache
          /\ \A i \in DOMAIN hdr.Idx :
                /\ ~res.Idx[i].nil =>
                      /\ ~hdr.Idx[i].nil
                      /\ res.Idx[i].cache \subseteq hdr.Idx[i].cache
                /\ (res.op # "summaries" \/ i # res.level) => hdr.Idx[i] = res.Idx[i]
                /\ SlotsAccepted(hdr.IndexOffset[i], res.Idx[i].cache, hdr.Idx[i].cache)

\* A zoom query answered from the slots an earlier query set: nothing is
\* read, the rejected child is not loaded and another level is not loaded.
C26_QueryServedFromSlots ==
    /\ res.op = "summaries"
    /\ res.n > 0
    /\ io = <<>>
    /\ hdr.Idx[res.level].cache = {<<1>>}
    /\ acc.idx[res.level] = 1
    /\ \E j \in DOMAIN hdr.Idx : hdr.Idx[j].nil
\* ------------------------- specification of blocks the decoder may reject
\* bwGetOverlappingIntervalsCore on blocks of any section type whose payload
\* may hold fewer records than the header declares.

\* Section types 0 and 4 stand for the types outside {1, 2, 3}.
SectionTypes == 0..4

\* Payloads of m complete records; the j-th value is j.
TailBlocks ==
    UNION { UNION {
        { Block("none", tid, 0, 1, 1, type, n, recs) :
            type \in SectionTypes, recs \in RecsOf(m, 0..MaxPos, {MaxPos}) }
        : m \in 0..n } : n \in 0..MaxRecs, tid \in {0, 1} }

InitTail ==
    /\ cl = [NKeys |-> 0, Chrom |-> <<>>]
    /\ rtree = <<>>
    /\ nodeOK = {}
    /\ \E b \in TailBlocks : blocks \in {<<b>>, <<LeadingBlock, b>>}
    /\ cache = {}
    /\ q \in DecodeQueries
    /\ res = NoResult
    /\ io = <<>>
    /\ iter = NilIter
    /\ acc = NoBatches
    /\ file = NoFile
    /\ url = NoUrl
    /\ hdr = NilHdr

SpecTail == InitTail /\ [][NextDecode]_vars

KnownType(b) == b.Type \in {1, 2, 3}

\* C22: when a decoded block whose header tid is the query tid has a type
\* outside {1, 2, 3}, the query fails and returns no intervals, whatever
\* header.nItems is (0 included).
C22_UnknownTypeFailsQuery ==
    (res.op = "decode"
        /\ \E i \in 1..Len(blocks) : blocks[i].Tid = q.tid /\ ~KnownType(blocks[i]))
    => res.out.nil

\* The records the payload of b holds completely, as the format defines them.
CompleteRecords(b) ==
    [j \in 1..Min(b.NItems, Len(b.recs)) |->
        [start |-> StoredStart(b, j), end |-> StoredEnd(b, j), value |-> b.recs[j].v]]

RECURSIVE CompleteEmittedFrom(_)
CompleteEmittedFrom(i) ==
    IF i > Len(blocks) THEN <<>>
    ELSE (IF blocks[i].Tid = q.tid
          THEN SelectSeq(CompleteRecords(blocks[i]), Emitted)
          ELSE <<>>) \o CompleteEmittedFrom(i + 1)

\* C23: when the payload of a block holds fewer complete records than
\* header.nItems declares, the decoder emits exactly the complete records
\* that pass the filter, nothing for the missing ones (also for
\* query.start = 0), and reports no error.
C23_TruncatedTail ==
    (res.op = "decode"
        /\ \A i \in 1..Len(blocks) : blocks[i].Tid = q.tid => KnownType(blocks[i]))
    => (~res.out.nil /\ res.out.items = CompleteEmittedFrom(1))

\* A block that declares more records than it holds is decoded for a query
\* that starts at 0, and its complete records are emitted.
C23_TailMissingAtQueryStartZero ==
    /\ res.op = "decode"
    /\ Len(blocks) = 1
    /\ KnownType(blocks[1])
    /\ blocks[1].Tid = q.tid
    /\ Len(blocks[1].recs) >= 1
    /\ Len(blocks[1].recs) < blocks[1].NItems
    /\ q.start = 0
    /\ Len(res.out.items) = Len(blocks[1].recs)
\* ------------------------------------------------- zoom level selection

\* A nil *bwZoomHdr_t and the zoom header with the reduction levels lv.
NilZoomHdr == [nil |-> TRUE, Level |-> <<>>]
ZoomHdr(lv) == [nil |-> FALSE, Level |-> lv]

\* The loop of bwSelectBestZoomLevel from level i (from 1) on; the returned
\* index counts from 0.
RECURSIVE SelectFrom(_, _, _, _, _)
SelectFrom(Level, desiredReduction, i, closestDiff, bestIdx) ==
    IF i > Len(Level) THEN bestIdx
    ELSE IF desiredReduction >= Level[i] /\ desiredReduction - Level[i] < closestDiff
    THEN SelectFrom(Level, desiredReduction, i + 1, desiredReduction - Level[i], i - 1)
    ELSE SelectFrom(Level, desiredReduction, i + 1, closestDiff, bestIdx)

\* closestDiff starts at the largest value of the word, ^uint32(0).
bwSelectBestZoomLevel(zhdr, desiredReduction) ==
    IF zhdr.nil \/ desiredReduction <= 1 \/ Len(zhdr.Level) = 0 THEN -1
    ELSE SelectFrom(zhdr.Level, desiredReduction, 1, WordMod - 1, -1)

LevelArrays == UNION {[1..n -> 0..(WordMod - 1)] : n \in 0..MaxZoomLevels}

InitSelect ==
    /\ cl = [NKeys |-> 0, Chrom |-> <<>>]
    /\ rtree = <<>>
    /\ nodeOK = {}
    /\ blocks = <<>>
    /\ cache = {}
    /\ q = [start |-> 0, end |-> 0, numBins |-> 0]
    /\ res = NoResult
    /\ io = <<>>
    /\ iter = NilIter
    /\ acc = NoBatches
    /\ file = NoFile
    /\ url = NoUrl
    /\ hdr \in {NilZoomHdr} \cup {ZoomHdr(lv) : lv \in LevelArrays}

\* bwSelectBestZoomLevel(zhdr, desiredReduction)
SelectBestZoomLevel ==
    /\ \E desiredReduction \in 0..(WordMod - 1) :
          res' = [op |-> "select", desired |-> desiredReduction,
                  idx |-> bwSelectBestZoomLevel(hdr, desiredReduction)]
    /\ UNCHANGED <<cl, rtree, nodeOK, blocks, cache, q, io, iter, acc, handle>>

NextSelect == SelectBestZoomLevel

SpecSelect == InitSelect /\ [][NextSelect]_vars

\* The levels (from 1) that are not above the desired reduction.
LevelsUnder(Level, desired) == {i \in 1..Len(Level) : Level[i] <= desired}

\* C24: for every array of levels and every desired reduction the selector
\* returns None (-1) exactly when no level <= desired exists, and otherwise
\* an index whose level is <= desired with desired - level minimal.
C24_BestUnderSelection ==
    res.op = "select" =>
        IF LevelsUnder(hdr.Level, res.desired) = {}
        THEN res.idx = -1
        ELSE /\ res.idx + 1 \in LevelsUnder(hdr.Level, res.desired)
             /\ \A j \in LevelsUnder(hdr.Level, res.desired) :
                   hdr.Level[res.idx + 1] >= hdr.Level[j]

\* The selector on the desired reductions from 2 on, where no level is as
\* far below the desired reduction as the word allows.
C24_BestUnderFromTwo ==
    (res.op = "select" /\ res.desired >= 2
        /\ \A j \in 1..Len(hdr.Level) : res.desired - hdr.Level[j] < WordMod - 1)
    => C24_BestUnderSelection
\* ------------------------------------------- automatic level selection

\* DesiredReduction without the floor of 2.
DesiredReductionUnraised(start, end, numBins) == Wrap(end - start) \div numBins

\* The desired reduction of bwGetValuesAutoZoom: baseSize / uint32(numBins),
\* and 2 when that is below 2.
DesiredReduction(start, end, numBins) ==
    IF Wrap(end - start) \div numBins < 2 THEN 2 ELSE Wrap(end - start) \div numBins

\* The values of the level with index bestIdx (from 0), or of the raw
\* intervals when no level was selected.
AutoZoomOf(bestIdx, levels, raw, ok, start, end, numBins, summaryType) ==
    IF bestIdx >= 0
    THEN [path |-> "zoom", idx |-> bestIdx,
          out |-> bwGetValuesFromZoom(levels[bestIdx + 1], ok, start, end,
                                      numBins, summaryType)]
    ELSE [path |-> "raw", idx |-> -1,
          out |-> bwGetValuesFromRaw(raw, ok, start, end, numBins, summaryType)]

\* bwGetValuesAutoZoom on a header h with the slice h.ZoomHdrs; levels are
\* the records of the zoom levels and raw the level-0 intervals of the file.
bwGetValuesAutoZoom(h, levels, raw, ok, start, end, numBins, summaryType) ==
    IF h.nil \/ Len(h.ZoomHdrs) = 0 \/ h.ZoomHdrs[1].nil
    THEN [path |-> "raw", idx |-> -1,
          out |-> bwGetValuesFromRaw(raw, ok, start, end, numBins, summaryType)]
    ELSE AutoZoomOf(bwSelectBestZoomLevel(h.ZoomHdrs[1],
                                          DesiredReduction(start, end, numBins)),
                    levels, raw, ok, start, end, numBins, summaryType)

\* The records of the windows of red bases from window k on; a window
\* without a value has no record.
RECURSIVE LevelOfReduction(_, _, _)
LevelOfReduction(raw, k, red) ==
    IF k * red >= ZoomLen THEN <<>>
    ELSE (IF RawBinFrom(raw, k * red, min32((k + 1) * red, ZoomLen),
                        1, EmptyBin).validCount = 0
          THEN <<>>
          ELSE <<SummaryOf(k * red, min32((k + 1) * red, ZoomLen),
                           RawBinFrom(raw, k * red, min32((k + 1) * red, ZoomLen),
                                      1, EmptyBin))>>)
         \o LevelOfReduction(raw, k + 1, red)

\* The reduction levels of the generated files, in file order.
AutoLevels == {<<>>, <<2>>, <<3>>, <<3, 2>>, <<2, 4>>}

AutoHdr(lv) ==
    [nil |-> FALSE, ZoomHdrs |-> IF lv = <<>> THEN <<>> ELSE <<ZoomHdr(lv)>>]

AutoFile(raw, lv) ==
    [kind |-> "auto", raw |-> raw,
     levels |-> [i \in 1..Len(lv) |-> LevelOfReduction(raw, 0, lv[i])]]

InitAuto ==
    /\ cl = [NKeys |-> 0, Chrom |-> <<>>]
    /\ rtree = <<>>
    /\ nodeOK = {}
    /\ blocks = <<>>
    /\ cache = {}
    /\ \E f \in [0..(ZoomLen - 1) -> {0, 2}], lv \in AutoLevels :
          /\ file = AutoFile(RawOf(f, 0), lv)
          /\ hdr = AutoHdr(lv)
    /\ q \in ZoomQueries
    /\ q.start < q.end
    /\ res = NoResult
    /\ io = <<>>
    /\ iter = NilIter
    /\ acc = NoBatches
    /\ url = NoUrl

\* bwGetValuesAutoZoom(fp, chrom, start, end, numBins, summaryType)
ValuesAutoZoom ==
    /\ \E summaryType \in SummaryTypes, ok \in BOOLEAN :
          res' = [op |-> "auto", summaryType |-> summaryType, ok |-> ok,
                  auto |-> bwGetValuesAutoZoom(hdr, file.levels, file.raw, ok,
                                               q.start, q.end, q.numBins, summaryType)]
    /\ UNCHANGED ZoomUnchanged

NextAuto == ValuesAutoZoom

SpecAuto == InitAuto /\ [][NextAuto]_vars

\* The reduction levels of the file (none without a zoom header).
LevelsOfFile == IF Len(hdr.ZoomHdrs) = 0 THEN <<>> ELSE hdr.ZoomHdrs[1].Level

\* desired = max(2, (end - start) / numBins)
DesiredOfQuery ==
    IF (q.end - q.start) \div q.numBins > 2 THEN (q.end - q.start) \div q.numBins ELSE 2

\* The bin i (from 1) with the bounds the zoom rebinning uses.
AutoBinLo(i) == BinEdge(q.start, q.end, q.numBins, i - 1)
AutoBinHi(i) == BinEdge(q.start, q.end, q.numBins, i)

\* The sums of overlap and of value * overlap over the raw intervals from j on.
RECURSIVE OverlapCount(_, _, _)
OverlapCount(lo, hi, j) ==
    IF j > Len(file.raw) THEN 0
    ELSE OverlapOf(file.raw[j], lo, hi) + OverlapCount(lo, hi, j + 1)

RECURSIVE OverlapSum(_, _, _)
OverlapSum(lo, hi, j) ==
    IF j > Len(file.raw) THEN 0
    ELSE file.raw[j].Value * OverlapOf(file.raw[j], lo, hi) + OverlapSum(lo, hi, j + 1)

\* C25: bwGetValuesAutoZoom rebins from the raw intervals exactly when the
\* file has no zoom header or no level is <= desired = max(2, (end - start) /
\* numBins); otherwise it uses the best level under desired.  On the raw
\* path each bin, with the bounds of the zoom rebinning, accumulates
\* validCount = overlap and sumData = value * overlap of each interval and
\* is aggregated as on the zoom path.
C25_FallbackToRaw ==
    res.op = "auto" =>
        /\ (res.auto.path = "raw") <=> (LevelsUnder(LevelsOfFile, DesiredOfQuery) = {})
        /\ res.auto.path = "zoom" =>
              /\ res.auto.idx + 1 \in LevelsUnder(LevelsOfFile, DesiredOfQuery)
              /\ \A j \in LevelsUnder(LevelsOfFile, DesiredOfQuery) :
                    LevelsOfFile[res.auto.idx + 1] >= LevelsOfFile[j]
              /\ res.auto.out = bwGetValuesFromZoom(file.levels[res.auto.idx + 1], res.ok,
                                                    q.start, q.end, q.numBins,
                                                    res.summaryType)
        /\ (res.auto.path = "raw" /\ res.auto.out.bins # <<>>) =>
              \A i \in 1..q.numBins :
                 /\ res.auto.out.bins[i].validCount = OverlapCount(AutoBinLo(i), AutoBinHi(i), 1)
                 /\ res.auto.out.bins[i].sumData = Num(OverlapSum(AutoBinLo(i), AutoBinHi(i), 1), 1)
                 /\ res.auto.out.values[i] =
                       IF OverlapCount(AutoBinLo(i), AutoBinHi(i), 1) > 0
                       THEN TableValue(res.summaryType, res.auto.out.bins[i])
                       ELSE NaN

\* A file with a zoom header none of whose levels is under the desired
\* reduction is rebinned from its raw intervals, a bin holding a value.
C25_RawBecauseNoLevelUnder ==
    /\ res.op = "auto"
    /\ Len(hdr.ZoomHdrs) = 1
    /\ res.auto.path = "raw"
    /\ res.auto.out.bins # <<>>
    /\ \E i \in 1..q.numBins : res.auto.out.bins[i].validCount > 1
    /\ (q.end - q.start) \div q.numBins < 2
\* ------------------------------------------------ opening a bigWig file

\* A handle Open returned for the resource u: open until Close is called on
\* it; osFile tells that it holds an open *os.File.
Handle(u) == [Type |-> u.Type, open |-> TRUE, osFile |-> u.Type = "BWG_FILE"]

\* URL.Close: the *os.File of a local resource is closed; a remote resource
\* holds nothing to close.
Close(h) ==
    [h EXCEPT !.open = FALSE,
              !.osFile = IF h.Type = "BWG_FILE" THEN FALSE ELSE @]

\* The handles of a call, in the order of their Open; the last one is closed.
CloseLast(hs) == [hs EXCEPT ![Len(hs)] = Close(@)]

\* What the read of the first four bytes brings: the bigWig magic, another
\* word, fewer than four bytes, or an error.
Magics == {"bigwig", "other", "short", "error"}

\* bwisBigWig(fname) once Open returned u; the deferred Close runs on every
\* return.
MagicChecked(u, magic, hs) ==
    [isBw |-> magic = "bigwig", err |-> magic = "error",
     hs |-> CloseLast(Append(hs, Handle(u)))]

bwisBigWig(fname, exists, magic, hs) ==
    IF Open(fname, exists, FileLen).nil
    THEN [isBw |-> FALSE, err |-> TRUE, hs |-> hs]
    ELSE MagicChecked(Open(fname, exists, FileLen), magic, hs)

\* OpenParsed with the handle left open when the index read fails.
OpenParsedLeakOnIndex(in, hs) ==
    IF ~in.hdr THEN [err |-> TRUE, owned |-> 0, hs |-> CloseLast(hs)]
    ELSE IF ~in.cl THEN [err |-> TRUE, owned |-> 0, hs |-> CloseLast(hs)]
    ELSE IF ~in.idx THEN [err |-> TRUE, owned |-> 0, hs |-> hs]
    ELSE [err |-> FALSE, owned |-> Len(hs), hs |-> hs]

\* OpenBigWig after its Open: bwHdrRead, bwReadchromList and bwReadIndex;
\* each failure closes the handle, which is the last of hs.
OpenParsed(in, hs) ==
    IF ~in.hdr THEN [err |-> TRUE, owned |-> 0, hs |-> CloseLast(hs)]
    ELSE IF ~in.cl THEN [err |-> TRUE, owned |-> 0, hs |-> CloseLast(hs)]
    ELSE IF ~in.idx THEN [err |-> TRUE, owned |-> 0, hs |-> CloseLast(hs)]
    ELSE [err |-> FALSE, owned |-> Len(hs), hs |-> hs]

\* OpenBigWig after bwisBigWig returned c.
OpenChecked(fname, in, c) ==
    IF c.err \/ ~c.isBw THEN [err |-> TRUE, owned |-> 0, hs |-> c.hs]
    ELSE IF Open(fname, in.exists2, FileLen).nil
    THEN [err |-> TRUE, owned |-> 0, hs |-> c.hs]
    ELSE OpenParsed(in, Append(c.hs, Handle(Open(fname, in.exists2, FileLen))))

\* OpenBigWig(fname).  in tells what the environment brings: whether the
\* two os.Open calls find the file, the first four bytes, and whether the
\* header, the chromosome list and the index can be read.
OpenBigWig(fname, in) ==
    OpenChecked(fname, in, bwisBigWig(fname, in.exists1, in.magic, <<>>))

OpenInputs ==
    [exists1 : BOOLEAN, exists2 : BOOLEAN, magic : Magics,
     hdr : BOOLEAN, cl : BOOLEAN, idx : BOOLEAN]

InitOpen ==
    /\ cl = [NKeys |-> 0, Chrom |-> <<>>]
    /\ rtree = <<>>
    /\ nodeOK = {}
    /\ blocks = <<>>
    /\ cache = {}
    /\ q \in OpenInputs
    /\ res = NoResult
    /\ io = <<>>
    /\ iter = NilIter
    /\ acc = [handles |-> <<>>, owned |-> 0]
    /\ \E fname \in FileNames : file = [kind |-> "name", fname |-> fname]
    /\ url = NoUrl
    /\ hdr = NilHdr

OpenUnchanged == <<cl, rtree, nodeOK, blocks, cache, q, io, iter, file, url, hdr>>

\* OpenBigWig(fname)
OpenBigWigCall ==
    /\ res.op = "none"
    /\ acc' = [handles |-> OpenBigWig(file.fname, q).hs,
               owned |-> OpenBigWig(file.fname, q).owned]
    /\ res' = [op |-> "open", err |-> OpenBigWig(file.fname, q).err]
    /\ UNCHANGED OpenUnchanged

\* CloseBigWig(fp) on the object OpenBigWig returned
CloseBigWigCall ==
    /\ res.op = "open"
    /\ ~res.err
    /\ acc' = [acc EXCEPT !.handles[acc.owned] = Close(@)]
    /\ res' = [op |-> "close", err |-> FALSE]
    /\ UNCHANGED OpenUnchanged

NextOpen == OpenBigWigCall \/ CloseBigWigCall

SpecOpen == InitOpen /\ [][NextOpen]_vars

\* The handles of the call that are still open.
StillOpen == {k \in 1..Len(acc.handles) : acc.handles[k].open \/ acc.handles[k].osFile}

\* C29: when OpenBigWig has returned, every handle it opened is closed,
\* except that after a success exactly one handle, the one of the returned
\* object, is open; a failed header, chromosome-list or index read leaves no
\* handle open.
C29_HandleAccounting ==
    res.op = "open" =>
        /\ res.err => StillOpen = {}
        /\ ~res.err =>
              /\ StillOpen = {acc.owned}
              /\ Len(acc.handles) = 2
              /\ acc.handles[acc.owned].open

\* OpenBigWig has failed at the index read of a local file after two
\* handles were opened.
C29_IndexReadFailed ==
    /\ res.op = "open"
    /\ res.err
    /\ q.hdr /\ q.cl /\ ~q.idx
    /\ Len(acc.handles) = 2
    /\ acc.handles[2].Type = "BWG_FILE"
\* ------------------------------------- parallel replacement of NaN by 0
\* The tail of GetZoomValues: the values bwGetValuesFromZoom returned are
\* handed in chunks to goroutines that replace NaN by 0, and the function
\* returns after wg.Wait().  file.values is the array as it was returned by
\* bwGetValuesFromZoom, acc.values the shared array, acc.workers the
\* goroutines started (range [s, e), next index j, done after wg.Done), and
\* acc.touched the goroutines that have accessed each index.  Indexes count
\* from 0; the arrays are functions on 1..n.

MaxValues == 3   \* largest length of the array
MaxCPU == 3      \* largest runtime.NumCPU()

\* ChunkSize rounded down.
ChunkSizeFloor(n, numCPU) == n \div numCPU

\* chunkSize := (n + numCPU - 1) / numCPU
ChunkSize(n, numCPU) == (n + numCPU - 1) \div numCPU

\* The range of goroutine i (from 0): [i * chunkSize, min(i * chunkSize + chunkSize, n)).
StartIdx(i, n, numCPU) == i * ChunkSize(n, numCPU)
EndIdx(i, n, numCPU) == Min(StartIdx(i, n, numCPU) + ChunkSize(n, numCPU), n)

InitNaN ==
    /\ cl = [NKeys |-> 0, Chrom |-> <<>>]
    /\ rtree = <<>>
    /\ nodeOK = {}
    /\ blocks = <<>>
    /\ cache = {}
    /\ \E n \in 0..MaxValues, numCPU \in 1..MaxCPU :
          /\ q = [n |-> n, numCPU |-> numCPU]
          /\ \E v \in [1..n -> {NaN, Num(1, 1), PosInf}] :
                /\ file = [kind |-> "values", values |-> v]
                /\ acc = [values |-> v, workers |-> <<>>,
                          touched |-> [k \in 1..n |-> {}]]
    /\ res = [op |-> "loop", i |-> 0, out |-> <<>>]
    /\ io = <<>>
    /\ iter = NilIter
    /\ url = NoUrl
    /\ hdr = NilHdr

NaNUnchanged == <<cl, rtree, nodeOK, blocks, cache, q, io, iter, file, url, hdr>>

\* if n == 0 { return values }
ReturnEmpty ==
    /\ res.op = "loop"
    /\ q.n = 0
    /\ res' = [op |-> "returned", i |-> 0, out |-> acc.values]
    /\ UNCHANGED <<acc, NaNUnchanged>>

\* One turn of the loop that starts the goroutines: wg.Add(1) and go, or
\* the end of the loop (i = numCPU, or break on startIdx >= n).
StartWorker ==
    /\ res.op = "loop"
    /\ q.n > 0
    /\ IF res.i < q.numCPU /\ StartIdx(res.i, q.n, q.numCPU) < q.n
       THEN /\ acc' = [acc EXCEPT !.workers =
                          Append(@, [s |-> StartIdx(res.i, q.n, q.numCPU),
                                     e |-> EndIdx(res.i, q.n, q.numCPU),
                                     j |-> StartIdx(res.i, q.n, q.numCPU),
                                     done |-> FALSE])]
            /\ res' = [res EXCEPT !.i = @ + 1]
       ELSE /\ res' = [res EXCEPT !.op = "wait"]
            /\ UNCHANGED acc
    /\ UNCHANGED NaNUnchanged

\* One turn of the loop of goroutine w: values[j] is read and, if NaN,
\* written; after the loop the deferred wg.Done() runs.
WorkerStep ==
    /\ \E w \in 1..Len(acc.workers) :
          /\ ~acc.workers[w].done
          /\ IF acc.workers[w].j < acc.workers[w].e
             THEN acc' = [acc EXCEPT
                            !.values[acc.workers[w].j + 1] =
                                IF @ = NaN THEN Num(0, 1) ELSE @,
                            !.touched[acc.workers[w].j + 1] = @ \cup {w},
                            !.workers[w].j = @ + 1]
             ELSE acc' = [acc EXCEPT !.workers[w].done = TRUE]
    /\ UNCHANGED <<res, NaNUnchanged>>

\* wg.Wait() returns when every started goroutine has called wg.Done();
\* the array is returned.
WaitAndReturn ==
    /\ res.op = "wait"
    /\ \A w \in 1..Len(acc.workers) : acc.workers[w].done
    /\ res' = [res EXCEPT !.op = "returned", !.out = acc.values]
    /\ UNCHANGED <<acc, NaNUnchanged>>

NextNaN == ReturnEmpty \/ StartWorker \/ WorkerStep \/ WaitAndReturn

SpecNaN == InitNaN /\ [][NextNaN]_vars

\* The indexes (from 1) of the range of goroutine w.
RangeOf(w) == {k \in 1..q.n : k - 1 >= acc.workers[w].s /\ k - 1 < acc.workers[w].e}

\* C30: for every length n >= 1 and every number of CPUs >= 1 the ranges of
\* the goroutines are pairwise disjoint, no index is accessed by two
\* goroutines, and when GetZoomValues returns every goroutine has finished,
\* the ranges cover [0, n), no value is NaN, every NaN has become 0 and
\* every other value is unchanged.
C30_ParallelNaNReplacement ==
    q.n >= 1 =>
        /\ \A v, w \in 1..Len(acc.workers) : v # w => RangeOf(v) \cap RangeOf(w) = {}
        /\ \A k \in 1..q.n : Cardinality(acc.touched[k]) <= 1
        /\ res.op = "returned" =>
              /\ \A w \in 1..Len(acc.workers) : acc.workers[w].done
              /\ UNION {RangeOf(w) : w \in 1..Len(acc.workers)} = 1..q.n
              /\ Len(res.out) = q.n
              /\ \A k \in 1..q.n :
                    /\ res.out[k] # NaN
                    /\ res.out[k] = IF file.values[k] = NaN THEN Num(0, 1)
                                    ELSE file.values[k]

\* An array of three values with a NaN in the last goroutine's range has
\* been returned after two goroutines worked on ranges of unequal length.
C30_UnevenChunksReturned ==
    /\ res.op = "returned"
    /\ q.n = 3
    /\ Len(acc.workers) = 2
    /\ file.values[3] = NaN
    /\ file.values[1] = PosInf
    /\ res.out[3] = Num(0, 1)
====